---- MODULE Spec2Model ----
(***************************************************************************)
(* Verification model of the Prodigy LLVM pass (DIG construction):         *)
(* allocation collection, element-size inference, base-pointer tracking,   *)
(* indirection detection and DIG insertion.                                *)
(*                                                                         *)
(* The program under analysis is a small LLVM-like IR module: a sequence   *)
(* of values (instructions, globals, arguments, constants) whose index is  *)
(* the value's identity (an llvm Value pointer), plus a function table.    *)
(***************************************************************************)
EXTENDS Integers, Sequences, FiniteSets, TLC

\* ------------------------------------------------------------------------
\* Generic helpers
\* ------------------------------------------------------------------------
RECURSIVE SeqFilter(_, _)
SeqFilter(s, S) ==
  IF s = <<>> THEN <<>>
  ELSE IF Head(s) \in S THEN <<Head(s)>> \o SeqFilter(Tail(s), S)
       ELSE SeqFilter(Tail(s), S)

RECURSIVE SeqReverse(_)
SeqReverse(s) == IF s = <<>> THEN <<>> ELSE SeqReverse(Tail(s)) \o <<Head(s)>>

SeqRange(s) == { s[i] : i \in 1..Len(s) }

RECURSIVE SetToSeq(_)
\* ascending enumeration of a finite set of naturals
SetToSeq(S) ==
  IF S = {} THEN <<>>
  ELSE LET m == CHOOSE x \in S : \A y \in S : x <= y
       IN <<m>> \o SetToSeq(S \ {m})

RECURSIVE Pow2(_)
Pow2(n) == IF n <= 0 THEN 1 ELSE 2 * Pow2(n - 1)

\* a local value: Body applied to v, which is evaluated once
With(v, Body(_)) == Body(v)

\* ------------------------------------------------------------------------
\* Function names are character sequences, so that StringRef::startswith
\* and StringRef::find/contains are computed, not assumed.
\* ------------------------------------------------------------------------
StartsWith(s, p) == Len(p) <= Len(s) /\ SubSeq(s, 1, Len(p)) = p

Contains(s, p) ==
  \E i \in 1..(Len(s) + 1) :
     i + Len(p) - 1 <= Len(s) /\ SubSeq(s, i, i + Len(p) - 1) = p

N_malloc  == <<"m","a","l","l","o","c">>
N_calloc  == <<"c","a","l","l","o","c">>
N_realloc == <<"r","e","a","l","l","o","c">>
N_Znwm    == <<"_","Z","n","w","m">>
N_Znam    == <<"_","Z","n","a","m">>
N_main    == <<"m","a","i","n">>
N_printf  == <<"p","r","i","n","t","f">>

\* TLC integers are 32-bit signed.  UINT32_MAX, the invalid node id, is
\* kept as its 32-bit pattern read as a signed number; node ids proper are
\* small naturals.
UINT32_MAX == -1

\* ------------------------------------------------------------------------
\* IR values.  k is the value kind; a, b are operands (0 = none); idx is
\* the index list of a gep or the argument list of a call; fn / bb are the
\* parent function and basic block; cf is the called function of a call
\* (0 = indirect call); op is the opcode of a binop; c is the value of a
\* constant; ty is the store size in bytes of the value's type.
\* ------------------------------------------------------------------------
Ins(k, a, b, idx, fn, bb, cf, op, c, ty) ==
  [k |-> k, a |-> a, b |-> b, idx |-> idx, fn |-> fn, bb |-> bb,
   cf |-> cf, op |-> op, c |-> c, ty |-> ty]

IConst(c)            == Ins("const",  0, 0, <<>>, 0, 0, 0, "", c, 8)
IGlobal              == Ins("global", 0, 0, <<>>, 0, 0, 0, "", 0, 8)
IArg(fn)             == Ins("arg",    0, 0, <<>>, fn, 0, 0, "", 0, 8)
IAlloca(fn, bb)      == Ins("alloca", 0, 0, <<>>, fn, bb, 0, "", 0, 8)
ICall(cf, args, fn, bb) == Ins("call", 0, 0, args, fn, bb, cf, "", 0, 8)
ILoad(p, ty, fn, bb) == Ins("load",   p, 0, <<>>, fn, bb, 0, "", 0, ty)
IStore(v, p, fn, bb) == Ins("store",  v, p, <<>>, fn, bb, 0, "", 0, 0)
IGep(p, idx, fn, bb) == Ins("gep",    p, 0, idx,  fn, bb, 0, "", 0, 8)
ICast(k, v, fn, bb)  == Ins(k,        v, 0, <<>>, fn, bb, 0, "", 0, 8)
IBin(op, x, y, fn, bb) == Ins("binop", x, y, <<>>, fn, bb, 0, op, 0, 8)
ICmp(x, y, fn, bb)   == Ins("icmp",   x, y, <<>>, fn, bb, 0, "", 0, 1)
IBr(cond, succ0, fn, bb) == Ins("br", cond, succ0, <<>>, fn, bb, 0, "", 0, 0)
ISelect(t, f, fn, bb) == Ins("select", t, f, <<>>, fn, bb, 0, "", 0, 8)
IPhi(x, y, fn, bb)   == Ins("phi",    x, y, <<>>, fn, bb, 0, "", 0, 8)

NFun(name, decl, retPtr) == [name |-> name, decl |-> decl, retPtr |-> retPtr]

Vals(M) == 1..Len(M.ins)
K(M, v) == IF v \in Vals(M) THEN M.ins[v].k ELSE "none"

\* operand list of a value, in operand order (a branch's successor block is
\* not a value operand)
Operands(M, v) ==
  LET i == M.ins[v] IN
  CASE i.k = "br"    -> IF i.a # 0 THEN <<i.a>> ELSE <<>>
    [] i.k = "gep"   -> <<i.a>> \o i.idx
    [] i.k = "call"  -> i.idx
    [] OTHER         -> (IF i.a # 0 THEN <<i.a>> ELSE <<>>) \o
                        (IF i.b # 0 THEN <<i.b>> ELSE <<>>)

RECURSIVE UsesFrom(_, _, _)
\* users of v among values u..Len, one entry per operand slot, program order
UsesFrom(M, v, u) ==
  IF u > Len(M.ins) THEN <<>>
  ELSE LET ops == Operands(M, u)
           n   == Cardinality({ j \in 1..Len(ops) : ops[j] = v })
       IN [j \in 1..n |-> u] \o UsesFrom(M, v, u + 1)

\* Value::users(): the use list.  LLVM prepends a new use to the list, so
\* the iteration order is either program order or its reverse, depending
\* on how the module was built; the module records which.
Users(M, v) ==
  IF v \notin Vals(M) THEN <<>>
  ELSE IF M.usesRev THEN SeqReverse(UsesFrom(M, v, 1)) ELSE UsesFrom(M, v, 1)

\* instructions of the whole module / of one function / of one block, in
\* program order
RECURSIVE InstrsFrom(_, _, _)
InstrsFrom(M, P(_), u) ==
  IF u > Len(M.ins) THEN <<>>
  ELSE (IF P(u) THEN <<u>> ELSE <<>>) \o InstrsFrom(M, P, u + 1)

IsInstr(M, v) == K(M, v) \notin {"const", "global", "arg", "none"}
ModuleInstrs(M) == LET P(u) == IsInstr(M, u) IN InstrsFrom(M, P, 1)
FunInstrs(M, F) == LET P(u) == IsInstr(M, u) /\ M.ins[u].fn = F IN InstrsFrom(M, P, 1)
BlockInstrs(M, F, B) ==
  LET P(u) == IsInstr(M, u) /\ M.ins[u].fn = F /\ M.ins[u].bb = B IN InstrsFrom(M, P, 1)

IsConstInt(M, v) == K(M, v) = "const"
ConstVal(M, v) == M.ins[v].c
NumIndices(M, g) == Len(M.ins[g].idx)

\* ------------------------------------------------------------------------
\* BasePointerTracker
\* ------------------------------------------------------------------------
\* ptrToNodeId is a function from a set of values to node ids
isRegistered(map, p) == p \in DOMAIN map
getNodeId(map, p) == IF p \in DOMAIN map THEN map[p] ELSE UINT32_MAX
registerPointer(map, p, n) ==
  [x \in (DOMAIN map) \cup {p} |-> IF x = p THEN n ELSE map[x]]

\* areGEPsSimilar: same number of indices and, for two or more indices,
\* constant positions equal, a constant against a non-constant differs,
\* two non-constants match; geps with fewer than two indices are never
\* similar.
areGEPsSimilar(M, g1, g2) ==
  LET i1 == M.ins[g1].idx
      i2 == M.ins[g2].idx
  IN IF Len(i1) # Len(i2) THEN FALSE
     ELSE IF Len(i1) >= 2
          THEN \A j \in 1..Len(i1) :
                 LET c1 == IsConstInt(M, i1[j])
                     c2 == IsConstInt(M, i2[j])
                 IN IF c1 /\ c2 THEN ConstVal(M, i1[j]) = ConstVal(M, i2[j])
                    ELSE ~(c1 \/ c2)
          ELSE FALSE

\* struct-style projection: at least two indices, the first a constant 0
IsStructAccess(M, g) ==
  /\ NumIndices(M, g) >= 2
  /\ IsConstInt(M, M.ins[g].idx[1])
  /\ ConstVal(M, M.ins[g].idx[1]) = 0

\* stores among the users of p whose pointer operand is p, use-list order
UserStoresTo(M, p) ==
  SeqFilter(Users(M, p), { u \in Vals(M) : K(M, u) = "store" /\ M.ins[u].b = p })

\* every store of the module whose target is a gep similar to g, in
\* function / block / instruction order
SimilarStores(M, g) ==
  SeqFilter(ModuleInstrs(M),
            { u \in Vals(M) : /\ K(M, u) = "store"
                              /\ K(M, M.ins[u].b) = "gep"
                              /\ areGEPsSimilar(M, g, M.ins[u].b) })

\* stores of function F whose pointer operand is p, program order
FunStoresTo(M, F, p) ==
  SeqFilter(FunInstrs(M, F), { u \in Vals(M) : K(M, u) = "store" /\ M.ins[u].b = p })

\* Result of a getBasePointer call: the returned value, the tracker map
\* after the call, and whether the call recursed without bound (a call on
\* a value that is already being resolved, with an unchanged map, repeats
\* the same computation forever: the native stack overflows).
BPRes(r, map) == [res |-> r, map |-> map, div |-> FALSE]
BPDiv(map)    == [res |-> 0, map |-> map, div |-> TRUE]

\* outcome of a store-scanning loop: found = TRUE with the value to return
StoreHit(r, map) == [found |-> TRUE, res |-> r, map |-> map, div |-> FALSE]
StoreMiss(map, div) == [found |-> FALSE, res |-> 0, map |-> map, div |-> div]

RECURSIVE getBasePointer(_, _, _, _)
RECURSIVE ScanStores(_, _, _, _, _, _, _)
RECURSIVE FirstStoreOfGlobal(_, _, _, _, _)
RECURSIVE getBasePointerLoad(_, _, _, _)
RECURSIVE getBasePointerGEP(_, _, _, _)

\* ScanStores: the three store-scanning loops of getBasePointer.  ss is
\* the list of candidate stores, alias the location to register when a
\* stored value is a known allocation (0: the loop registers nothing).
ScanStores(M, ss, i, alias, recurse, map, stack) ==
  IF i > Len(ss) THEN StoreMiss(map, FALSE)
  ELSE With(M.ins[ss[i]].a, LAMBDA sv :
    IF isRegistered(map, sv)
    THEN StoreHit(sv, IF alias # 0 THEN registerPointer(map, alias, getNodeId(map, sv))
                      ELSE map)
    ELSE IF ~recurse THEN ScanStores(M, ss, i + 1, alias, recurse, map, stack)
    ELSE With(getBasePointer(M, sv, map, stack), LAMBDA r :
         IF r.div THEN StoreMiss(r.map, TRUE)
         ELSE IF r.res # 0 /\ isRegistered(r.map, r.res) THEN StoreHit(r.res, r.map)
         ELSE ScanStores(M, ss, i + 1, alias, recurse, r.map, stack)))

\* the first-store rule used for global variables: the first store found
\* decides (both of its branches return)
FirstStoreOfGlobal(M, gv, alias, map, stack) ==
  With(M.ins[UserStoresTo(M, gv)[1]].a, LAMBDA sv :
    IF isRegistered(map, sv)
    THEN BPRes(sv, IF alias THEN registerPointer(map, gv, map[sv]) ELSE map)
    ELSE getBasePointer(M, sv, map, stack))

\* the alloca loop of the load branch, after the two recursing loops
LoadAllocaScan(M, ptr, LoadedFrom, map, stack) ==
  IF K(M, LoadedFrom) = "alloca"
  THEN With(ScanStores(M, FunStoresTo(M, M.ins[LoadedFrom].fn, LoadedFrom),
                       1, LoadedFrom, FALSE, map, stack), LAMBDA s3 :
         IF s3.found THEN BPRes(s3.res, s3.map) ELSE BPRes(ptr, s3.map))
  ELSE BPRes(ptr, map)

getBasePointerLoad(M, ptr, map, stack) ==
  With(M.ins[ptr].a, LAMBDA LoadedFrom :
    IF K(M, LoadedFrom) = "global" /\ UserStoresTo(M, LoadedFrom) # <<>>
    THEN FirstStoreOfGlobal(M, LoadedFrom, FALSE, map, stack)
    ELSE With(IF K(M, LoadedFrom) = "gep"
              THEN ScanStores(M, SimilarStores(M, LoadedFrom), 1, 0, TRUE, map, stack)
              ELSE StoreMiss(map, FALSE), LAMBDA s1 :
      IF s1.div THEN BPDiv(s1.map)
      ELSE IF s1.found THEN BPRes(s1.res, s1.map)
      ELSE With(ScanStores(M, UserStoresTo(M, LoadedFrom), 1, LoadedFrom, TRUE,
                           s1.map, stack), LAMBDA s2 :
        IF s2.div THEN BPDiv(s2.map)
        ELSE IF s2.found THEN BPRes(s2.res, s2.map)
        ELSE LoadAllocaScan(M, ptr, LoadedFrom, s2.map, stack))))

\* variant: an address computation over an unknown base is returned as is
getBasePointerGEP_NoPeel(M, ptr, map, stack) ==
  IF isRegistered(map, M.ins[ptr].a) THEN BPRes(M.ins[ptr].a, map)
  ELSE BPRes(ptr, map)

getBasePointerGEP(M, ptr, map, stack) ==
  With(IF IsStructAccess(M, ptr) /\ K(M, M.ins[ptr].a) = "load"
       THEN ScanStores(M, SimilarStores(M, ptr), 1, 0, TRUE, map, stack)
       ELSE StoreMiss(map, FALSE), LAMBDA s1 :
    IF s1.div THEN BPDiv(s1.map)
    ELSE IF s1.found THEN BPRes(s1.res, s1.map)
    ELSE getBasePointer(M, M.ins[ptr].a, s1.map, stack))

getBasePointer(M, ptr, map, stack) ==
  IF isRegistered(map, ptr) THEN BPRes(ptr, map)
  ELSE IF <<ptr, map>> \in stack THEN BPDiv(map)
  ELSE With(stack \cup {<<ptr, map>>}, LAMBDA st :
    CASE K(M, ptr) = "global" ->
           IF UserStoresTo(M, ptr) # <<>>
           THEN FirstStoreOfGlobal(M, ptr, TRUE, map, st)
           ELSE BPRes(ptr, map)
      [] K(M, ptr) = "gep"  -> getBasePointerGEP(M, ptr, map, st)
      [] K(M, ptr) = "load" -> getBasePointerLoad(M, ptr, map, st)
      [] OTHER -> BPRes(ptr, map))

\* ------------------------------------------------------------------------
\* AllocInfo values.  numElements / elementSize are llvm Values: absent
\* (nullptr), a constant of a given bit width, or a non-constant value of
\* the program (v = its id; v = -1 is the callee operand that
\* getArgOperand yields when the argument index is out of range).
\* ------------------------------------------------------------------------
VNull == [kind |-> "null", v |-> 0, c |-> 0, bits |-> 0]
VSym(v) == [kind |-> "sym", v |-> v, c |-> 0, bits |-> 0]
\* ConstantInt::get(iN, x), for x within the range of iN
VConst(x, bits) == [kind |-> "const", v |-> 0, c |-> x, bits |-> bits]
\* the int64 value 1LL << k, for shift amounts 0..62; beyond 2^30 it is
\* outside the model's integers and is kept as Wide (a positive number
\* larger than any size the model uses)
Wide == 2147483647
Shl64(k) == IF k <= 30 THEN Pow2(k) ELSE Wide
\* ConstantInt::get(i32, 1LL << k): the low 32 bits of 2^k
Shl32(k) == IF k >= 32 THEN 0 ELSE IF k = 31 THEN -2147483647 - 1 ELSE Pow2(k)
VOf(M, v) == IF IsConstInt(M, v) THEN VConst(ConstVal(M, v), 64) ELSE VSym(v)

\* CallInst::getArgOperand(i); behind the last argument lies the callee
\* operand (an out-of-range index is undefined behaviour)
ArgOperand(M, CI, i) == IF i <= Len(M.ins[CI].idx) THEN M.ins[CI].idx[i] ELSE -1
ArgValue(M, CI, i) == IF i <= Len(M.ins[CI].idx) THEN VOf(M, M.ins[CI].idx[i]) ELSE VSym(-1)

CalleeName(M, CI) == IF M.ins[CI].cf = 0 THEN <<>> ELSE M.fns[M.ins[CI].cf].name
FunName(M, F) == M.fns[F].name

NewAllocInfo(CI) ==
  [allocCall |-> CI, basePtr |-> 0, numElements |-> VNull, elementSize |-> VNull,
   nodeId |-> 0, registered |-> FALSE,
   inferredElementType |-> 0, constantElementSize |-> -1, constantNumElements |-> -1]

\* ------------------------------------------------------------------------
\* ElementSizeInference.  Every strategy yields [ok, info, crash]; crash
\* records a call through the null DataLayout pointer that faulted.
\* ------------------------------------------------------------------------
Inf(ok, info, crash) == [ok |-> ok, info |-> info, crash |-> crash]

PlausibleSizes == {1, 2, 4, 8, 12, 16, 24, 32}

analyzeAllocationArgument(M, sizeArg, info) ==
  LET i == IF sizeArg \in Vals(M) THEN M.ins[sizeArg] ELSE IConst(0)
      isMul == sizeArg \in Vals(M) /\ i.k = "binop" /\ i.op = "mul"
      isShl == sizeArg \in Vals(M) /\ i.k = "binop" /\ i.op = "shl"
      CI    == IF IsConstInt(M, i.b) THEN i.b ELSE IF IsConstInt(M, i.a) THEN i.a ELSE 0
      Count == IF IsConstInt(M, i.b) THEN i.a ELSE i.b
  IN IF isMul /\ CI # 0 /\ ConstVal(M, CI) \in PlausibleSizes
     THEN Inf(TRUE, [info EXCEPT !.elementSize = VOf(M, CI),
                                 !.numElements = VOf(M, Count),
                                 !.constantElementSize = ConstVal(M, CI)], FALSE)
     ELSE IF isShl /\ IsConstInt(M, i.b)
     THEN LET shift == ConstVal(M, i.b) IN
          Inf(TRUE, [info EXCEPT !.elementSize = VConst(Shl32(shift), 32),
                                 !.numElements = VOf(M, i.a),
                                 !.constantElementSize = Shl64(shift)], FALSE)
     ELSE Inf(FALSE, info, FALSE)

\* the use-chain walk of analyzeUsagePatterns: breadth-first from the
\* allocation through geps and pointer casts, gathering geps, loads and
\* the stores that write through the visited value
RECURSIVE UsageWalk(_, _, _, _)
UsageWalk(M, worklist, visited, acc) ==
  IF worklist = <<>> THEN acc
  ELSE IF Head(worklist) \in visited THEN UsageWalk(M, Tail(worklist), visited, acc)
  ELSE With(Head(worklist), LAMBDA V : With(Users(M, V), LAMBDA us :
         UsageWalk(M,
           Tail(worklist) \o SeqFilter(us, { u \in Vals(M) :
              K(M, u) \in {"gep", "bitcast", "ptrtoint", "inttoptr"} }),
           visited \cup {V},
           [geps |-> acc.geps \o SeqFilter(us, { u \in Vals(M) : K(M, u) = "gep" }),
            loads |-> acc.loads \o SeqFilter(us, { u \in Vals(M) : K(M, u) = "load" }),
            stores |-> acc.stores \o
               SeqFilter(us, { u \in Vals(M) : K(M, u) = "store" /\ M.ins[u].b = V })])))

\* typeFrequency: a type is identified by its store size
AccessTypes(M, w) ==
  [j \in 1..(Len(w.loads) + Len(w.stores)) |->
     IF j <= Len(w.loads) THEN M.ins[w.loads[j]].ty
     ELSE M.ins[M.ins[w.stores[j - Len(w.loads)]].a].ty]

TypeFreq(tys, t) == Cardinality({ j \in 1..Len(tys) : tys[j] = t })

\* first type of maximal frequency in the iteration order of the type map
\* (ordered by the address of the type object: ascending or descending in
\* size, as the module records)
MostFrequentType(M, tys) ==
  IF tys = <<>> THEN 0
  ELSE With({ t \in SeqRange(tys) :
                \A u \in SeqRange(tys) : TypeFreq(tys, u) <= TypeFreq(tys, t) },
            LAMBDA best :
              IF M.tyRev THEN CHOOSE t \in best : \A u \in best : u <= t
              ELSE CHOOSE t \in best : \A u \in best : t <= u)

StridePairs(M, geps) ==
  { <<i, j>> \in (1..Len(geps)) \X (1..Len(geps)) :
      /\ i < j
      /\ NumIndices(M, geps[i]) = 1 /\ IsConstInt(M, M.ins[geps[i]].idx[1])
      /\ NumIndices(M, geps[j]) = 1 /\ IsConstInt(M, M.ins[geps[j]].idx[1])
      /\ M.ins[geps[j]].a = M.ins[geps[i]].a }

StrideOf(M, geps, pr) ==
  With(ConstVal(M, M.ins[geps[pr[2]]].idx[1]) - ConstVal(M, M.ins[geps[pr[1]]].idx[1]),
       LAMBDA d : IF d < 0 THEN -d ELSE d)

\* strideFrequency: the strides in 1..32 between gep pairs, with counts
StrideFrequency(M, geps) ==
  With([pr \in StridePairs(M, geps) |-> StrideOf(M, geps, pr)], LAMBDA sd :
    [s \in { sd[pr] : pr \in { q \in DOMAIN sd : sd[q] > 0 /\ sd[q] <= 32 } } |->
       Cardinality({ pr \in DOMAIN sd : sd[pr] = s })])

analyzeGEPStrides(M, geps, info) ==
  With(StrideFrequency(M, geps), LAMBDA freq :
  With(IF DOMAIN freq = {} THEN 0
       ELSE freq[CHOOSE s \in DOMAIN freq : \A t \in DOMAIN freq : freq[t] <= freq[s]],
       LAMBDA maxStrideFreq :
  \* the stride map is ordered by stride: the smallest stride of maximal
  \* frequency wins
  With(IF DOMAIN freq = {} THEN 1
       ELSE CHOOSE s \in DOMAIN freq :
              /\ freq[s] = maxStrideFreq
              /\ \A t \in DOMAIN freq : freq[t] = maxStrideFreq => s <= t,
       LAMBDA mostCommonStride :
    \* the gep's c field is the store size of its source element type
    IF /\ mostCommonStride > 1 /\ maxStrideFreq >= 2
       /\ \E j \in 1..Len(geps) : M.ins[geps[j]].c = 1
    THEN Inf(TRUE,
             [info EXCEPT !.elementSize = VConst(mostCommonStride, 32),
                          !.constantElementSize = mostCommonStride,
                          !.numElements =
                             IF info.numElements.kind = "const"
                             THEN VConst(info.numElements.c \div mostCommonStride, 64)
                             ELSE info.numElements], FALSE)
    ELSE Inf(FALSE, info, FALSE))))

\* DL is a null pointer in the pass (ElementSizeInference is default
\* constructed): DL->getTypeStoreSize is undefined behaviour, which either
\* faults (ub = "crash") or happens to return the size (ub = "value").
analyzeLoopPatterns(M, info, loads, ub) ==
  With(SeqFilter(loads, { l \in Vals(M) : K(M, M.ins[l].a) = "gep" }), LAMBDA gl :
  With({ j \in 1..Len(gl) : M.ins[gl[j]].ty > 1 /\ M.ins[gl[j]].ty <= 32 }, LAMBDA hit :
    IF gl = <<>> THEN Inf(FALSE, info, FALSE)
    ELSE IF ub = "crash" THEN Inf(FALSE, info, TRUE)
    ELSE IF hit = {} THEN Inf(FALSE, info, FALSE)
    ELSE With(M.ins[gl[CHOOSE j \in hit : \A h \in hit : j <= h]].ty, LAMBDA sz :
           Inf(TRUE, [info EXCEPT !.elementSize = VConst(sz, 32),
                                  !.constantElementSize = sz,
                                  !.inferredElementType = sz], FALSE))))

\* strategy 1 of analyzeUsagePatterns, given the most frequent access type
\* and its frequency; falls through to the gep strides and loop patterns
UsageByType(M, info, ub, w, typeSize, maxFreq) ==
  IF typeSize # 0 /\ maxFreq >= 2 /\ ub = "crash" THEN Inf(FALSE, info, TRUE)
  ELSE IF /\ typeSize # 0 /\ maxFreq >= 2
          /\ info.numElements.kind = "const"
          /\ info.numElements.c >= typeSize /\ info.numElements.c % typeSize = 0
  THEN Inf(TRUE, [info EXCEPT !.elementSize = VConst(typeSize, 32),
                              !.numElements = VConst(info.numElements.c \div typeSize, 64),
                              !.constantElementSize = typeSize,
                              !.constantNumElements = info.numElements.c \div typeSize],
           FALSE)
  ELSE With(IF w.geps # <<>> THEN analyzeGEPStrides(M, w.geps, info)
            ELSE Inf(FALSE, info, FALSE), LAMBDA g :
         IF g.ok THEN g ELSE analyzeLoopPatterns(M, info, w.loads, ub))

analyzeUsagePatterns(M, info, ub) ==
  With(UsageWalk(M, <<info.basePtr>>, {}, [geps |-> <<>>, loads |-> <<>>, stores |-> <<>>]),
       LAMBDA w :
  With(AccessTypes(M, w), LAMBDA tys :
  With(MostFrequentType(M, tys), LAMBDA mft :
    UsageByType(M, info, ub, w, mft, IF mft = 0 THEN 0 ELSE TypeFreq(tys, mft)))))

\* SE is a null pointer in the pass: the affine-stride strategy is off
analyzeSCEVPatterns(M, info) == Inf(FALSE, info, FALSE)

inferElementSizeFromMalloc(M, info, ub) ==
  With(analyzeAllocationArgument(M, ArgOperand(M, info.allocCall, 1), info), LAMBDA r1 :
    IF r1.ok THEN r1
    ELSE With(analyzeUsagePatterns(M, info, ub), LAMBDA r2 :
      IF r2.crash \/ r2.ok THEN r2
      ELSE IF analyzeSCEVPatterns(M, info).ok THEN analyzeSCEVPatterns(M, info)
      ELSE Inf(TRUE, [info EXCEPT !.elementSize = VConst(1, 32),
                                  !.numElements = ArgValue(M, info.allocCall, 1)], FALSE)))

inferElementSizeFromCalloc(M, info) ==
  With(ArgValue(M, info.allocCall, 1), LAMBDA countArg :
  With(ArgValue(M, info.allocCall, 2), LAMBDA sizeArg :
    Inf(TRUE,
        [info EXCEPT !.numElements = countArg,
                     !.elementSize = sizeArg,
                     !.constantElementSize =
                         IF sizeArg.kind = "const" THEN sizeArg.c ELSE @,
                     !.inferredElementType =
                         IF sizeArg.kind = "const" /\ sizeArg.c \in {1, 2, 4, 8}
                         THEN sizeArg.c ELSE @,
                     !.constantNumElements =
                         IF countArg.kind = "const" THEN countArg.c ELSE @], FALSE)))

\* the size operand of operator new: the overflow check of a new[]
\* (select cond, -1, size) is looked through
NewSizeArg(M, arg0) ==
  IF K(M, arg0) # "select" THEN arg0
  ELSE With(M.ins[arg0], LAMBDA sel :
         With(IF IsConstInt(M, sel.a) /\ ConstVal(M, sel.a) = -1 THEN sel.b ELSE arg0,
              LAMBDA s1 :
                IF IsConstInt(M, sel.b) /\ ConstVal(M, sel.b) = -1 THEN sel.a ELSE s1))

inferElementSizeFromNew(M, info, ub) ==
  With(NewSizeArg(M, ArgOperand(M, info.allocCall, 1)), LAMBDA sizeArg :
    IF IsConstInt(M, sizeArg) /\ ConstVal(M, sizeArg) % 8 = 0 /\ ConstVal(M, sizeArg) <= 256
    THEN Inf(TRUE, [info EXCEPT !.elementSize = VOf(M, sizeArg),
                                !.numElements = VConst(1, 64),
                                !.constantElementSize = ConstVal(M, sizeArg)], FALSE)
    ELSE inferElementSizeFromMalloc(M,
            [info EXCEPT !.numElements = IF sizeArg = -1 THEN VSym(-1) ELSE VOf(M, sizeArg)],
            ub))

inferElementSize(M, info, ub) ==
  LET n == CalleeName(M, info.allocCall) IN
  IF n = N_malloc THEN inferElementSizeFromMalloc(M, info, ub)
  ELSE IF n = N_calloc THEN inferElementSizeFromCalloc(M, info)
  ELSE IF n \in {N_Znwm, N_Znam} THEN inferElementSizeFromNew(M, info, ub)
  ELSE Inf(FALSE, info, FALSE)

\* ------------------------------------------------------------------------
\* AllocationCollector (ProdigyPass::collectAllocations and helpers).
\* The collector state is [allocs, next, map, crash]: globalAllocations,
\* nextNodeId, the tracker's ptrToNodeId and whether the pass has faulted.
\* ------------------------------------------------------------------------
SuspiciousSize == 65536

C_omp    == <<"o","m","p">>
C_dotomp == <<".","o","m","p">>
C_omp_   == <<"o","m","p","_">>
C_kmpc   == <<"_","_","k","m","p","c">>
C_GOMP   == <<"G","O","M","P">>


IsOmpName(name) ==
  \/ Contains(name, C_dotomp) \/ Contains(name, C_kmpc)
  \/ Contains(name, C_omp_)   \/ Contains(name, C_GOMP)

shouldFilterAllocation(M, CI) == IsOmpName(FunName(M, M.ins[CI].fn))

\* number of arguments the collector reads from a call of this name
ArgsRead(name) == IF name = N_calloc THEN 2 ELSE 1

\* the name tests of shouldTrackAllocation, which precede its read of
\* argument 0
trackByName(M, CI) ==
  LET CallerName == FunName(M, M.ins[CI].fn)
  IN /\ ~StartsWith(CallerName, <<"_","_","k","m","p","c","_">>)
     /\ ~StartsWith(CallerName, <<".","o","m","p","_">>)
     /\ ~StartsWith(CallerName, <<"_","_","k","m","p","_">>)
     /\ ~Contains(CallerName, C_omp)
     /\ ~StartsWith(CallerName, <<"G","O","M","P","_">>)
     /\ ~(StartsWith(CallerName, <<"_","_">>) /\ ~StartsWith(CallerName, <<"_","_","m","a","i","n">>))

shouldTrackAllocation(M, CI) ==
  LET a0 == ArgOperand(M, CI, 1)
  IN /\ trackByName(M, CI)
     /\ ~(IsConstInt(M, a0) /\ ConstVal(M, a0) = SuspiciousSize)

\* variant: the id counter is read but not advanced
TakeNodeId_Stuck(st) == st

\* alloc.nodeId = nextNodeId++
TakeNodeId(st) == [st EXCEPT !.next = @ + 1]

handleAllocation(M, CI, st, ub) ==
  IF st.crash THEN st
  ELSE IF ~trackByName(M, CI) THEN st
  \* getArgOperand(0) of a call without arguments is out of range: an
  \* assertion failure, or the callee operand that lies behind the
  \* arguments
  ELSE IF Len(M.ins[CI].idx) = 0 /\ ub = "crash" THEN [st EXCEPT !.crash = TRUE]
  ELSE IF ~shouldTrackAllocation(M, CI) THEN st
  ELSE IF shouldFilterAllocation(M, CI) THEN st
  ELSE IF Len(M.ins[CI].idx) < ArgsRead(CalleeName(M, CI)) /\ ub = "crash"
  THEN [TakeNodeId(st) EXCEPT !.crash = TRUE]
  ELSE With(inferElementSize(M, [NewAllocInfo(CI) EXCEPT !.basePtr = CI,
                                                         !.nodeId = st.next], ub),
            LAMBDA r :
    IF r.crash THEN [TakeNodeId(st) EXCEPT !.crash = TRUE]
    ELSE With(IF r.info.elementSize.kind = "null"
              THEN [r.info EXCEPT !.elementSize = VConst(1, 32)] ELSE r.info, LAMBDA i1 :
         With(IF i1.numElements.kind = "null"
              THEN [i1 EXCEPT !.numElements =
                       IF Len(M.ins[CI].idx) > 0 THEN ArgValue(M, CI, 1) ELSE VConst(1, 64)]
              ELSE i1, LAMBDA i2 :
           [TakeNodeId(st) EXCEPT !.allocs = Append(@, i2),
                                  !.map = registerPointer(@, CI, i2.nodeId)])))

AllocNames == {N_malloc, N_calloc, N_realloc, N_Znwm, N_Znam}

RECURSIVE HandleAll(_, _, _, _, _)
HandleAll(M, calls, i, st, ub) ==
  IF i > Len(calls) THEN st
  ELSE HandleAll(M, calls, i + 1, handleAllocation(M, calls[i], st, ub), ub)

RECURSIVE AliasStructStores(_, _, _, _)
\* second pass of collectAllocations: a registered allocation stored to a
\* struct-style gep registers that gep under the same node id
AliasStructStores(M, stores, i, map) ==
  IF i > Len(stores) THEN map
  ELSE LET SI == M.ins[stores[i]]
           hit == /\ isRegistered(map, SI.a)
                  /\ K(M, SI.b) = "gep"
                  /\ IsStructAccess(M, SI.b)
       IN AliasStructStores(M, stores, i + 1,
             IF hit THEN registerPointer(map, SI.b, getNodeId(map, SI.a)) ELSE map)

collectAllocations(M, F, st, ub) ==
  With(HandleAll(M, SeqFilter(FunInstrs(M, F),
                   { u \in Vals(M) : K(M, u) = "call" /\ M.ins[u].cf # 0
                                     /\ CalleeName(M, u) \in AllocNames }),
                 1, st, ub), LAMBDA s1 :
    IF s1.crash THEN s1
    ELSE [s1 EXCEPT !.map =
            AliasStructStores(M, SeqFilter(FunInstrs(M, F),
                                           { u \in Vals(M) : K(M, u) = "store" }),
                              1, s1.map)])

\* functions with a body, in module order
DefinedFuns(M) == SeqFilter([i \in 1..Len(M.fns) |-> i], { f \in 1..Len(M.fns) : ~M.fns[f].decl })

RECURSIVE CollectFrom(_, _, _, _, _)
CollectFrom(M, fs, i, st, ub) ==
  IF i > Len(fs) THEN st
  ELSE CollectFrom(M, fs, i + 1, collectAllocations(M, fs[i], st, ub), ub)

\* variant: the id counter keeps the value an earlier run left in it
CollectorInit_NoReset == [allocs |-> <<>>, next |-> 1, map |-> <<>>, crash |-> FALSE]

CollectorInit == [allocs |-> <<>>, next |-> 0, map |-> <<>>, crash |-> FALSE]

\* phase 1 of runOnModule
CollectModule(M, ub) == CollectFrom(M, DefinedFuns(M), 1, CollectorInit, ub)

\* ------------------------------------------------------------------------
\* State
\* ------------------------------------------------------------------------
\* ------------------------------------------------------------------------
\* IndirectionDetector.  The detector state D is a record: ind
\* (indirections), dp (detectedPatterns), drp (detectedRangedPatterns), ap
\* (accessorPatterns), map (the tracker's ptrToNodeId, which getBasePointer
\* extends), div (a getBasePointer call recursed without bound), and the
\* locals ab (ArrayBase of the second pass) and rp (rangedPatterns of
\* checkForRangedPattern).
\* ------------------------------------------------------------------------
TraceLimit == 10

IndirectionInfo(type, src, dest, acc, map) ==
  [type |-> type, srcBase |-> src, destBase |-> dest, accessInst |-> acc,
   srcNodeId |-> getNodeId(map, src), destNodeId |-> getNodeId(map, dest)]

EdgeKey(src, dest, type) == <<src, dest, type>>

RECURSIVE Flatten(_)
Flatten(ss) == IF ss = <<>> THEN <<>> ELSE Head(ss) \o Flatten(Tail(ss))

\* a loop over work items that stops when the pass has died
RECURSIVE FoldItems(_, _, _, _, _)
FoldItems(M, Op(_, _, _), items, k, D) ==
  IF k > Len(items) \/ D.div THEN D
  ELSE FoldItems(M, Op, items, k + 1, Op(M, D, items[k]))

RECURSIVE PeelBase(_, _)
PeelBase(M, b) ==
  IF K(M, b) \in {"bitcast", "gep"} THEN PeelBase(M, M.ins[b].a) ELSE b

getUltimateBase(M, V, map) ==
  With(getBasePointer(M, V, map, {}), LAMBDA r1 :
    IF r1.div THEN r1
    ELSE With(IF K(M, r1.res) = "load"
              THEN getBasePointer(M, M.ins[r1.res].a, r1.map, {})
              ELSE r1, LAMBDA r2 :
           IF r2.div THEN r2 ELSE BPRes(PeelBase(M, r2.res), r2.map)))

\* variant: only an index that is itself a load from the heap is accepted
traceToLoad_Direct(M, V) ==
  IF K(M, V) = "load" /\ K(M, M.ins[V].a) # "alloca" THEN V ELSE 0

RECURSIVE TraceWalk_NoBudget(_, _, _)
\* variant: the walk goes on until the worklist is empty
TraceWalk_NoBudget(M, worklist, visited) ==
  IF worklist = <<>> THEN [res |-> 0, visited |-> visited]
  ELSE LET cur  == Head(worklist)
           rest == Tail(worklist)
           vis  == visited \cup {cur}
           AI   == M.ins[cur].a
           sts  == SeqFilter(UserStoresTo(M, AI),
                             { s \in Vals(M) : M.ins[s].fn = M.ins[cur].fn })
       IN IF cur \in visited THEN TraceWalk_NoBudget(M, rest, visited)
          ELSE CASE K(M, cur) = "load" ->
                      IF K(M, AI) = "alloca"
                      THEN TraceWalk_NoBudget(M, rest \o [j \in 1..Len(sts) |-> M.ins[sts[j]].a], vis)
                      ELSE [res |-> cur, visited |-> vis]
                 [] K(M, cur) \in {"sext", "zext", "trunc"} ->
                      TraceWalk_NoBudget(M, rest \o <<M.ins[cur].a>>, vis)
                 [] K(M, cur) = "binop" ->
                      TraceWalk_NoBudget(M, rest \o <<M.ins[cur].a, M.ins[cur].b>>, vis)
                 [] OTHER -> TraceWalk_NoBudget(M, rest, vis)

RECURSIVE TraceWalk(_, _, _)
\* the worklist loop of traceToLoad: yields the load found (0: nullptr) and
\* the visited set at that point
TraceWalk(M, worklist, visited) ==
  IF worklist = <<>> \/ Cardinality(visited) >= TraceLimit
  THEN [res |-> 0, visited |-> visited]
  ELSE LET cur  == Head(worklist)
           rest == Tail(worklist)
           vis  == visited \cup {cur}
           AI   == M.ins[cur].a
           sts  == SeqFilter(UserStoresTo(M, AI),
                             { s \in Vals(M) : M.ins[s].fn = M.ins[cur].fn })
       IN IF cur \in visited THEN TraceWalk(M, rest, visited)
          ELSE CASE K(M, cur) = "load" ->
                      IF K(M, AI) = "alloca"
                      THEN TraceWalk(M, rest \o [j \in 1..Len(sts) |-> M.ins[sts[j]].a], vis)
                      ELSE [res |-> cur, visited |-> vis]
                 [] K(M, cur) \in {"sext", "zext", "trunc"} ->
                      TraceWalk(M, rest \o <<M.ins[cur].a>>, vis)
                 [] K(M, cur) = "binop" ->
                      TraceWalk(M, rest \o <<M.ins[cur].a, M.ins[cur].b>>, vis)
                 [] OTHER -> TraceWalk(M, rest, vis)

\* 0 stands for nullptr
traceToLoad(M, V) == TraceWalk(M, <<V>>, {}).res

createIndirectionEntry(M, D, SrcBase, DestBase, AccessInst, Type) ==
  With(IndirectionInfo(Type, SrcBase, DestBase, AccessInst, D.map), LAMBDA info :
  With(EdgeKey(SrcBase, DestBase, Type), LAMBDA key :
    IF /\ info.srcNodeId # UINT32_MAX
       /\ info.destNodeId # UINT32_MAX
       /\ info.srcNodeId # info.destNodeId
    THEN IF Type = "SingleValued"
         THEN IF key \notin D.dp
              THEN [D EXCEPT !.ind = Append(@, info), !.dp = @ \cup {key}]
              ELSE D
         ELSE IF key \notin D.drp
              THEN [D EXCEPT !.ind = Append(@, info), !.drp = @ \cup {key}]
              ELSE D
    ELSE D))

\* accessor functions
N_begin    == <<"b","e","g","i","n">>
N_end      == <<"e","n","d">>
N_operator == <<"o","p","e","r","a","t","o","r">>
N_at       == <<"a","t">>
MaxAccessorSize == 20

FunBlocks(M, F) == { M.ins[u].bb : u \in SeqRange(FunInstrs(M, F)) }
EntryBlock(M, F) == CHOOSE b \in FunBlocks(M, F) : \A c \in FunBlocks(M, F) : b <= c
FunArgs(M, F) == { v \in Vals(M) : K(M, v) = "arg" /\ M.ins[v].fn = F }

isSimpleAccessorFunction(M, F) ==
  /\ \E n \in {N_begin, N_end, N_operator, N_at} : Contains(M.fns[F].name, n)
  /\ Cardinality(FunBlocks(M, F)) = 1
  /\ Len(FunInstrs(M, F)) <= MaxAccessorSize
  /\ M.fns[F].retPtr

\* the (index load, load, gep) patterns of an accessor: loads of the
\* entry block through a gep one of whose indices is itself a load
AccessorLoads(M, F) ==
  With(SeqFilter(BlockInstrs(M, F, EntryBlock(M, F)),
                 { u \in Vals(M) : K(M, u) = "load" /\ K(M, M.ins[u].a) = "gep" }),
       LAMBDA loads :
    Flatten([j \in 1..Len(loads) |->
      With(SeqFilter(M.ins[M.ins[loads[j]].a].idx, { v \in Vals(M) : K(M, v) = "load" }),
           LAMBDA hit :
             [x \in 1..Len(hit) |-> <<hit[x], loads[j], M.ins[loads[j]].a>>])]))

analyzeAccessorFunction(M, D, F) ==
  With(AccessorLoads(M, F), LAMBDA found :
    IF FunBlocks(M, F) = {} \/ FunArgs(M, F) = {} \/ found = <<>> THEN D
    ELSE [D EXCEPT !.ap = [x \in (DOMAIN D.ap) \cup {F} |->
                             IF x # F THEN D.ap[x]
                             ELSE IF F \in DOMAIN D.ap THEN D.ap[F] \o found
                             ELSE found]])

connectAccessorPattern(M, D, CI) ==
  IF M.ins[CI].idx = <<>> THEN D
  ELSE With(getBasePointer(M, M.ins[CI].idx[1], D.map, {}), LAMBDA r :
    IF r.div THEN [D EXCEPT !.div = TRUE, !.map = r.map]
    ELSE IF ~isRegistered(r.map, r.res) THEN [D EXCEPT !.map = r.map]
    ELSE [D EXCEPT !.map = r.map,
                   !.ind = @ \o [j \in 1..Len(D.ap[M.ins[CI].cf]) |->
                              IndirectionInfo("SingleValued", r.res, r.res, CI, r.map)]])

\* identifySingleValuedIndirections, first loop: one item per accessor
\* call and per (load through a gep, index position), in program order
SVItems(M, D, F) ==
  LET Of(u) ==
        CASE K(M, u) = "call" /\ M.ins[u].cf \in DOMAIN D.ap -> << <<"call", u, 0>> >>
          [] K(M, u) = "load" /\ K(M, M.ins[u].a) = "gep" ->
               [i \in 1..NumIndices(M, M.ins[u].a) |-> <<"load", u, i>>]
          [] OTHER -> <<>>
      is == FunInstrs(M, F)
  IN Flatten([j \in 1..Len(is) |-> Of(is[j])])

\* the edge recorded for an outer load once both bases are resolved
SVRecord(D, info, key) ==
  IF /\ info.srcNodeId # UINT32_MAX
     /\ info.destNodeId # UINT32_MAX
     /\ key \notin D.dp
  THEN [D EXCEPT !.ind = Append(@, info), !.dp = @ \cup {key}]
  ELSE D

\* the pointer whose base is the source: the index load's pointer operand,
\* or what that operand indexes when it is a gep
IndexPointer(M, IndexLoad) ==
  With(M.ins[IndexLoad].a, LAMBDA ip : IF K(M, ip) = "gep" THEN M.ins[ip].a ELSE ip)

SVLoadStep(M, D, OuterLoad, i) ==
  With(M.ins[M.ins[OuterLoad].a].idx[i], LAMBDA Index :
  With(traceToLoad(M, IF K(M, Index) \in {"sext", "zext"} THEN M.ins[Index].a ELSE Index),
       LAMBDA IndexLoad :
    IF IndexLoad = 0 THEN D
    ELSE With(getUltimateBase(M, IndexPointer(M, IndexLoad), D.map), LAMBDA s :
      IF s.div THEN [D EXCEPT !.div = TRUE, !.map = s.map]
      ELSE With(getUltimateBase(M, M.ins[M.ins[OuterLoad].a].a, s.map), LAMBDA d :
        IF d.div THEN [D EXCEPT !.div = TRUE, !.map = d.map]
        ELSE SVRecord([D EXCEPT !.map = d.map],
                      IndirectionInfo("SingleValued", s.res, d.res, OuterLoad, d.map),
                      EdgeKey(s.res, d.res, "SingleValued"))))))

SVStep(M, D, item) ==
  IF item[1] = "call" THEN connectAccessorPattern(M, D, item[2])
  ELSE SVLoadStep(M, D, item[2], item[3])

\* second loop: <<"array", GEP, 0>> computes ArrayBase for a load through
\* GEP; <<"outer", OuterGEP, 0>> is one index operand of OuterGEP that is
\* the loaded value (or its extension)
SecondItems(M, F) ==
  LET geps == SeqFilter(FunInstrs(M, F),
                        { u \in Vals(M) : K(M, u) = "gep" /\ NumIndices(M, u) >= 1 })
      LoadsOf(v) == SeqFilter(Users(M, v), { u \in Vals(M) : K(M, u) = "load" })
      Hits(g, iv) == Cardinality({ i \in 1..NumIndices(M, g) : M.ins[g].idx[i] = iv })
      Outer(iv) ==
        LET gs == SeqFilter(Users(M, iv), { u \in Vals(M) : K(M, u) = "gep" })
        IN Flatten([j \in 1..Len(gs) |-> [x \in 1..Hits(gs[j], iv) |-> <<"outer", gs[j], 0>>]])
      PerLoad(g, LI) ==
        LET lus == Users(M, LI)
        IN << <<"array", g, 0>> >> \o
           Flatten([j \in 1..Len(lus) |->
                      Outer(IF K(M, lus[j]) \in {"sext", "zext"} THEN lus[j] ELSE LI)])
      PerGEP(g) == LET ls == LoadsOf(g)
                   IN Flatten([j \in 1..Len(ls) |-> PerLoad(g, ls[j])])
  IN Flatten([j \in 1..Len(geps) |-> PerGEP(geps[j])])

RECURSIVE CreateEach(_, _, _, _, _, _, _)
CreateEach(M, D, src, dest, loads, k, type) ==
  IF k > Len(loads) THEN D
  ELSE CreateEach(M, createIndirectionEntry(M, D, src, dest, loads[k], type),
                  src, dest, loads, k + 1, type)

SecondStep(M, D, item) ==
  With(getUltimateBase(M, M.ins[item[2]].a, D.map), LAMBDA r :
    IF r.div THEN [D EXCEPT !.div = TRUE, !.map = r.map]
    ELSE IF item[1] = "array" THEN [D EXCEPT !.map = r.map, !.ab = r.res]
    ELSE IF /\ isRegistered(r.map, D.ab)
            /\ isRegistered(r.map, r.res)
            /\ D.ab # r.res
         THEN CreateEach(M, [D EXCEPT !.map = r.map], D.ab, r.res,
                         SeqFilter(Users(M, item[2]), { u \in Vals(M) : K(M, u) = "load" }),
                         1, "SingleValued")
         ELSE [D EXCEPT !.map = r.map])

N_TDStep == <<"T","D","S","t","e","p">>
N_BFS    == <<"B","F","S">>
IsBFSName(M, F) == Contains(M.fns[F].name, N_TDStep) \/ Contains(M.fns[F].name, N_BFS)

\* identifySingleValuedIndirections(F), for functions whose name does not
\* select the BFS special case
identifySingleValuedIndirections(M, D, F) ==
  FoldItems(M, SecondStep, SecondItems(M, F), 1,
            FoldItems(M, SVStep, SVItems(M, D, F), 1, D))

\* areConsecutiveArrayLoads: yields ok plus the tracker map after the
\* getUltimateBase calls it made
areConsecutiveArrayLoads(M, Load1, Load2, map) ==
  LET Struct(p) == K(M, p) = "load" /\ K(M, M.ins[p].a) = "gep"
      Strip(x) == IF K(M, x) = "sext" THEN M.ins[x].a ELSE x
      UBase(p, mp) == IF Struct(p) THEN getUltimateBase(M, M.ins[M.ins[p].a].a, mp)
                      ELSE BPRes(p, mp)
      \* Base1 == Base2, after both are replaced by the common address
      \* when they are loads of the same address
      SameBase(b1, b2) ==
        \/ b1 = b2
        \/ /\ K(M, b1) = "load" /\ K(M, b2) = "load"
           /\ M.ins[b1].a = M.ins[b2].a
      PlusOne(Idx1, Idx2) ==
        /\ K(M, Idx2) = "binop" /\ M.ins[Idx2].op = "add"
        /\ With(M.ins[Idx2].a, LAMBDA Op0 :
              (IF /\ K(M, Op0) = "load" /\ K(M, Idx1) = "load"
                  /\ M.ins[Op0].a = M.ins[Idx1].a
               THEN Idx1 ELSE Op0) = Idx1)
        /\ IsConstInt(M, M.ins[Idx2].b) /\ ConstVal(M, M.ins[Idx2].b) = 1
      Verdict(GEP1, GEP2, P1, P2, u1, u2) ==
        [ok |-> /\ \/ SameBase(u1.res, u2.res)
                   \/ P1 = P2
                   \/ /\ Struct(P1) /\ Struct(P2)
                      /\ areGEPsSimilar(M, M.ins[P1].a, M.ins[P2].a)
                /\ NumIndices(M, GEP1) = 1 /\ NumIndices(M, GEP2) = 1
                /\ PlusOne(Strip(M.ins[GEP1].idx[1]), Strip(M.ins[GEP2].idx[1])),
         map |-> u2.map, div |-> FALSE]
      Bases(GEP1, GEP2, P1, P2) ==
        With(UBase(P1, map), LAMBDA u1 :
          IF u1.div THEN [ok |-> FALSE, map |-> u1.map, div |-> TRUE]
          ELSE With(UBase(P2, u1.map), LAMBDA u2 :
            IF u2.div THEN [ok |-> FALSE, map |-> u2.map, div |-> TRUE]
            ELSE Verdict(GEP1, GEP2, P1, P2, u1, u2)))
  IN IF K(M, M.ins[Load1].a) # "gep" \/ K(M, M.ins[Load2].a) # "gep"
     THEN [ok |-> FALSE, map |-> map, div |-> FALSE]
     ELSE Bases(M.ins[Load1].a, M.ins[Load2].a,
                M.ins[M.ins[Load1].a].a, M.ins[M.ins[Load2].a].a)

\* the block a comparison guards: successor 0 of the last conditional
\* branch among its users (0: none)
LoopBlockOf(M, Cmp) ==
  LET brs == SeqFilter(Users(M, Cmp), { u \in Vals(M) : K(M, u) = "br" /\ M.ins[u].a # 0 })
  IN IF brs = <<>> THEN 0 ELSE M.ins[brs[Len(brs)]].b

\* checkForRangedPattern work items: <<"cmp", 0, 0>> opens a comparison
\* (a fresh local rangedPatterns), <<"access", load, 0>> is one candidate
\* load of the guarded block.  endValues is a std::set of pointers; it is
\* walked in ascending value order.
RangedItems(M, EndLoad) ==
  LET OfCmp(Cmp) ==
        With(LoopBlockOf(M, Cmp), LAMBDA bb :
          IF bb = 0 THEN <<>>
          ELSE With(SeqFilter(BlockInstrs(M, M.ins[Cmp].fn, bb),
                              { u \in Vals(M) : K(M, u) = "load" }), LAMBDA cs :
                 << <<"cmp", 0, 0>> >> \o [j \in 1..Len(cs) |-> <<"access", cs[j], 0>>]))
      OfVal(v) ==
        With(SeqFilter(Users(M, v), { u \in Vals(M) : K(M, u) = "icmp" }), LAMBDA cmps :
          Flatten([j \in 1..Len(cmps) |-> OfCmp(cmps[j])]))
      EndValues(sts) ==
        {EndLoad} \cup
        { l \in Vals(M) : /\ K(M, l) = "load"
                          /\ \E j \in 1..Len(sts) : M.ins[l].a = M.ins[sts[j]].b }
  IN With(SetToSeq(EndValues(SeqFilter(Users(M, EndLoad),
                                       { u \in Vals(M) : K(M, u) = "store" }))),
          LAMBDA ev : Flatten([j \in 1..Len(ev) |-> OfVal(ev[j])]))

RangedStep(M, D, StartLoad, item) ==
  IF item[1] = "cmp" THEN [D EXCEPT !.rp = {}]
  ELSE With(getUltimateBase(M, M.ins[item[2]].a, D.map), LAMBDA a :
    IF a.div THEN [D EXCEPT !.div = TRUE, !.map = a.map]
    ELSE With(getUltimateBase(M, M.ins[StartLoad].a, a.map), LAMBDA s :
      IF s.div THEN [D EXCEPT !.div = TRUE, !.map = s.map]
      ELSE IF /\ a.res # s.res
              /\ isRegistered(s.map, a.res)
              /\ isRegistered(s.map, s.res)
              /\ <<s.res, a.res>> \notin D.rp
           THEN IF EdgeKey(s.res, a.res, "Ranged") \notin D.drp
                THEN [D EXCEPT !.map = s.map,
                               !.rp = @ \cup {<<s.res, a.res>>},
                               !.drp = @ \cup {EdgeKey(s.res, a.res, "Ranged")},
                               !.ind = Append(@, IndirectionInfo("Ranged", s.res, a.res,
                                                                 item[2], s.map))]
                ELSE [D EXCEPT !.map = s.map, !.rp = @ \cup {<<s.res, a.res>>}]
           ELSE [D EXCEPT !.map = s.map]))

checkForRangedPattern(M, D, StartLoad, EndLoad) ==
  FoldItems(M, LAMBDA MM, DD, item : RangedStep(MM, DD, StartLoad, item),
            RangedItems(M, EndLoad), 1, D)

RangedPairStep(M, D, pair) ==
  With(areConsecutiveArrayLoads(M, pair[1], pair[2], D.map), LAMBDA c :
    IF c.ok THEN checkForRangedPattern(M, [D EXCEPT !.map = c.map, !.div = c.div],
                                       pair[1], pair[2])
    ELSE [D EXCEPT !.map = c.map, !.div = c.div])

identifyRangedIndirections(M, D, F) ==
  With(SeqFilter(FunInstrs(M, F), { u \in Vals(M) : K(M, u) = "load" }), LAMBDA allLoads :
    FoldItems(M, RangedPairStep,
              Flatten([i \in 1..Len(allLoads) |->
                         [j \in 1..(Len(allLoads) - i) |-> <<allLoads[i], allLoads[i + j]>>]]),
              1, D))

\* getNodeIdFromBase: the id of the allocation whose call is base
getNodeIdFromBase(base, allocations) ==
  IF \E i \in 1..Len(allocations) : allocations[i].basePtr = base
  THEN allocations[CHOOSE i \in 1..Len(allocations) :
                     /\ allocations[i].basePtr = base
                     /\ \A j \in 1..(i - 1) : allocations[j].basePtr # base].nodeId
  ELSE UINT32_MAX

clearIndirections(D) == [D EXCEPT !.ind = <<>>]

\* IndirectionDetector::detectIndirections(F, allocations)
detectIndirections(M, D, F, allocations) ==
  With(identifyRangedIndirections(M,
         identifySingleValuedIndirections(M, clearIndirections(D), F), F), LAMBDA D2 :
    [D2 EXCEPT !.ind = [i \in 1..Len(D2.ind) |->
       [D2.ind[i] EXCEPT !.srcNodeId = getNodeIdFromBase(D2.ind[i].srcBase, allocations),
                         !.destNodeId = getNodeIdFromBase(D2.ind[i].destBase, allocations)]]])

\* the detection part of ProdigyPass::detectIndirections(F)
passDetect(M, D, F) ==
  identifyRangedIndirections(M,
    identifySingleValuedIndirections(M, clearIndirections(D), F), F)

NewDetector(map) ==
  [ind |-> <<>>, dp |-> {}, drp |-> {}, ap |-> <<>>, map |-> map,
   div |-> FALSE, ab |-> 0, rp |-> {}]

\* ------------------------------------------------------------------------
\* DIGInsertion.  The inserted printf calls are kept as a list of records
\* (kind, the function that receives the call, the number of call
\* arguments, and the numbers printed); X is the record of what insertion
\* reads and writes: allocs (the allocation list with its registered
\* flags), re (registeredEdges), out (the calls inserted so far), lay
\* (the instructions of the module in program order, the inserted ones
\* included), at and bb (the insertion point of the IRBuilder in use).
\* ------------------------------------------------------------------------
BaseOffset64    == 1
PointerBounds64 == 3
StaticOffset_1  == 6
StaticOffset_2  == 7
StaticOffset_8  == 9
StaticOffset_16 == 10
NeverSquash     == 24
InvalidFunc     == 25

Printf(kind, fn, nargs, a, b, c) ==
  [kind |-> kind, fn |-> fn, nargs |-> nargs, a |-> a, b |-> b, c |-> c]

getTraversalFunctionId(type) ==
  CASE type = "SingleValued" -> BaseOffset64
    [] type = "Ranged" -> PointerBounds64
    [] OTHER -> InvalidFunc

getSquashFunctionId == NeverSquash

RECURSIVE ScanEdges_AlwaysUpdate(_, _, _, _)
\* variant: every edge out of the dequeued node updates its destination
ScanEdges_AlwaysUpdate(ind, k, cur, st) ==
  IF k > Len(ind) THEN st
  ELSE With(ind[k].destNodeId, LAMBDA dest :
    ScanEdges_AlwaysUpdate(ind, k + 1, cur,
      IF ind[k].srcNodeId = cur
      THEN [q |-> Append(st.q, dest),
            nd |-> [x \in (DOMAIN st.nd) \cup {dest} |->
                      IF x = dest THEN st.nd[cur] + 1 ELSE st.nd[x]],
            max |-> IF st.nd[cur] + 1 > st.max THEN st.nd[cur] + 1 ELSE st.max,
            upd |-> [x \in (DOMAIN st.upd) \cup {dest} |->
                      IF x \notin DOMAIN st.upd THEN 1
                      ELSE IF x = dest THEN st.upd[x] + 1 ELSE st.upd[x]],
            pops |-> st.pops]
      ELSE st))

RECURSIVE ScanEdges(_, _, _, _)
\* the for loop of calculateDIGDepthFromNode for one dequeued node; upd
\* counts the assignments to nodeDepths[dest]
ScanEdges(ind, k, cur, st) ==
  IF k > Len(ind) THEN st
  ELSE LET dest == ind[k].destNodeId
           newDepth == st.nd[cur] + 1
           upd == /\ ind[k].srcNodeId = cur
                  /\ (dest \notin DOMAIN st.nd \/ st.nd[dest] > newDepth)
       IN ScanEdges(ind, k + 1, cur,
            IF upd
            THEN [q |-> Append(st.q, dest),
                  nd |-> [x \in (DOMAIN st.nd) \cup {dest} |->
                            IF x = dest THEN newDepth ELSE st.nd[x]],
                  max |-> IF newDepth > st.max THEN newDepth ELSE st.max,
                  upd |-> [x \in (DOMAIN st.upd) \cup {dest} |->
                            IF x \notin DOMAIN st.upd THEN 1
                            ELSE IF x = dest THEN st.upd[x] + 1 ELSE st.upd[x]],
                  pops |-> st.pops]
            ELSE st)

RECURSIVE DepthBFS(_, _)
\* the while loop; pops counts the dequeued nodes.  The evaluation is cut
\* after Len(ind) + 2 dequeues, more than a run can make when every update
\* is the first assignment of a node reached by a distinct edge.
DepthBFS(ind, st) ==
  IF st.q = <<>> \/ st.pops > Len(ind) + 1 THEN st
  ELSE DepthBFS(ind, ScanEdges(ind, 1, Head(st.q),
                               [st EXCEPT !.q = Tail(@), !.pops = @ + 1]))

\* the state of the computation when it ends
DepthRun(nodeId, ind) ==
  DepthBFS(ind, [q |-> <<nodeId>>, nd |-> [x \in {nodeId} |-> 0], max |-> 0,
                 upd |-> <<>>, pops |-> 0])

calculateDIGDepthFromNode(nodeId, ind) == DepthRun(nodeId, ind).max

getTriggerFunctionForNode(nodeId, allocations, ind) ==
  LET depth == calculateDIGDepthFromNode(nodeId, ind)
  IN IF depth >= 4 THEN StaticOffset_1
     ELSE IF depth = 3 THEN StaticOffset_2
     ELSE IF depth = 2 THEN StaticOffset_8
     ELSE StaticOffset_16

\* Module::getFunction("main"); 0 when the module has none
MainFun(M) ==
  IF \E f \in 1..Len(M.fns) : M.fns[f].name = N_main
  THEN CHOOSE f \in 1..Len(M.fns) : M.fns[f].name = N_main
  ELSE 0

\* An entry of the layout: an instruction of the program as written
\* (kind "orig", id its value id) or an inserted one: a printf call (n its
\* index in the list of inserted calls), the load of a one-time flag or
\* the store that sets it.  flag names the flag that guards a call.
OrigItem(M, u) ==
  [kind |-> "orig", fn |-> M.ins[u].fn, bb |-> M.ins[u].bb, id |-> u, n |-> 0,
   flag |-> <<>>]
Inserted(kind, fn, bb, n, flag) ==
  [kind |-> kind, fn |-> fn, bb |-> bb, id |-> 0, n |-> n, flag |-> flag]
OrigLayout(M) ==
  With(ModuleInstrs(M), LAMBDA is : [k \in 1..Len(is) |-> OrigItem(M, is[k])])

\* IRBuilder at the instruction that follows position p: what it creates
\* comes right after p
InsertAfter(lay, p, items) == SubSeq(lay, 1, p) \o items \o SubSeq(lay, p + 1, Len(lay))

\* position of an instruction of the program as written
PosOf(lay, u) == CHOOSE p \in 1..Len(lay) : lay[p].kind = "orig" /\ lay[p].id = u

\* CallInst::arg_size() of a printf call, -1 for anything else
ArgSize(M, out, it) ==
  IF it.kind = "printf" THEN out[it.n].nargs
  ELSE IF /\ it.kind = "orig" /\ K(M, it.id) = "call" /\ M.ins[it.id].cf # 0
          /\ CalleeName(M, it.id) = N_printf
       THEN Len(M.ins[it.id].idx)
       ELSE -1

\* the last position among S that holds a printf call of at least 5
\* arguments; 0 when there is none
LastNodePrintf(M, X, S) ==
  With({ p \in S : ArgSize(M, X.out, X.lay[p]) >= 5 }, LAMBDA W :
    IF W = {} THEN 0 ELSE CHOOSE p \in W : \A q \in W : q <= p)

\* EntryBB.getFirstInsertionPt(): the first instruction of the entry block
FirstInsertionPt(M, lay, F) ==
  CHOOSE p \in 1..Len(lay) :
    /\ lay[p].fn = F /\ lay[p].bb = EntryBlock(M, F)
    /\ \A q \in 1..(p - 1) : ~(lay[q].fn = F /\ lay[q].bb = EntryBlock(M, F))

\* load of the one-time flag, printf whose format is empty unless the
\* flag was still false, store of true to the flag
GuardedCall(fn, bb, n, flag) ==
  << Inserted("load", fn, bb, 0, flag), Inserted("printf", fn, bb, n, flag),
     Inserted("store", fn, bb, 0, flag) >>

insertGlobalDIGHeader(M, X) ==
  IF MainFun(M) = 0 THEN X
  ELSE With(FirstInsertionPt(M, X.lay, MainFun(M)), LAMBDA p :
    [X EXCEPT
       !.out = Append(@, Printf("HEADER", MainFun(M), 1, 0, 0, 0)),
       !.lay = InsertAfter(@, p - 1,
                 << Inserted("printf", MainFun(M), X.lay[p].bb, Len(X.out) + 1, <<>>) >>)])

RECURSIVE PlaceNodes(_, _, _, _, _)
\* the registration of the j-th unregistered allocation of the function,
\* right after its allocation call; base is the number of calls inserted
\* before the loop
PlaceNodes(allocs, hits, j, base, lay) ==
  IF j > Len(hits) THEN lay
  ELSE With(PosOf(lay, allocs[hits[j]].allocCall), LAMBDA p :
    PlaceNodes(allocs, hits, j + 1, base,
      InsertAfter(lay, p, GuardedCall(lay[p].fn, lay[p].bb, base + j,
                                      <<"node", allocs[hits[j]].nodeId>>))))

\* variant: every record is instrumented in every function
insertNodeRegistrations_Every(M, F, X) ==
  With([i \in 1..Len(X.allocs) |-> i], LAMBDA hits :
    [X EXCEPT
       !.allocs = [i \in 1..Len(X.allocs) |-> [X.allocs[i] EXCEPT !.registered = TRUE]],
       !.out = @ \o [j \in 1..Len(hits) |->
                       Printf("NODE", F, 5, X.allocs[hits[j]].nodeId, 0, 0)],
       !.lay = PlaceNodes(X.allocs, hits, 1, Len(X.out), @)])

insertNodeRegistrations(M, F, X) ==
  With(SetToSeq({ i \in 1..Len(X.allocs) :
                    /\ M.ins[X.allocs[i].allocCall].fn = F
                    /\ ~X.allocs[i].registered }), LAMBDA hits :
    [X EXCEPT
       !.allocs = [i \in 1..Len(X.allocs) |->
                     IF i \in SeqRange(hits)
                     THEN [X.allocs[i] EXCEPT !.registered = TRUE] ELSE X.allocs[i]],
       !.out = @ \o [j \in 1..Len(hits) |->
                       Printf("NODE", F, 5, X.allocs[hits[j]].nodeId, 0, 0)],
       !.lay = PlaceNodes(X.allocs, hits, 1, Len(X.out), @)])

\* a printf call with at least 5 operands (the callee included) in F:
\* among the inserted calls or in the program as written
HasRegistrationPrintf(M, F, out) ==
  \/ \E k \in 1..Len(out) : out[k].fn = F /\ out[k].nargs + 1 >= 5
  \/ \E u \in Vals(M) : /\ K(M, u) = "call" /\ M.ins[u].fn = F
                        /\ M.ins[u].cf # 0 /\ CalleeName(M, u) = N_printf
                        /\ Len(M.ins[u].idx) + 1 >= 5

RECURSIVE EdgeLoop(_, _, _, _)
EdgeLoop(M, ind, k, X) ==
  IF k > Len(ind) THEN X
  ELSE LET info == ind[k]
           key  == EdgeKey(info.srcBase, info.destBase, info.type)
       IN EdgeLoop(M, ind, k + 1,
            IF \/ key \in X.re
               \/ info.srcNodeId = UINT32_MAX
               \/ info.destNodeId = UINT32_MAX
            THEN X
            ELSE [X EXCEPT !.re = @ \cup {key},
                           !.out = Append(@, Printf("EDGE", MainFun(M), 4, info.srcNodeId,
                                                    info.destNodeId,
                                                    getTraversalFunctionId(info.type))),
                           !.lay = InsertAfter(@, X.at,
                                     << Inserted("printf", MainFun(M), X.bb,
                                                 Len(X.out) + 1, <<>>) >>),
                           !.at = @ + 1])

\* the insertion point of the edges: after the last printf call of at
\* least 5 arguments in main, or the start of main's entry block
EdgeInsertPt(M, X) ==
  With(LastNodePrintf(M, X, { p \in 1..Len(X.lay) : X.lay[p].fn = MainFun(M) }),
       LAMBDA q :
    IF q # 0 THEN [X EXCEPT !.at = q, !.bb = X.lay[q].bb]
    ELSE With(FirstInsertionPt(M, X.lay, MainFun(M)), LAMBDA p :
           [X EXCEPT !.at = p - 1, !.bb = X.lay[p].bb]))

insertEdges(M, F, ind, X) ==
  IF ind = <<>> \/ MainFun(M) = 0 THEN X ELSE EdgeLoop(M, ind, 1, EdgeInsertPt(M, X))

\* where the trigger of an allocation goes: after the last printf call of
\* at least 5 arguments in the block of the allocation call, or after the
\* allocation call
TriggerInsertPt(M, X, CI) ==
  With(LastNodePrintf(M, X, { p \in 1..Len(X.lay) :
                                /\ X.lay[p].fn = M.ins[CI].fn
                                /\ X.lay[p].bb = M.ins[CI].bb }), LAMBDA q :
    IF q # 0 THEN q ELSE PosOf(X.lay, CI))

RECURSIVE TriggerLoop(_, _, _, _, _, _)
\* the allocation loop of insertTriggerEdges, for the allocations hits
\* that pass its tests
TriggerLoop(M, F, ind, hits, j, X) ==
  IF j > Len(hits) THEN X
  ELSE With(X.allocs[hits[j]], LAMBDA alloc :
    TriggerLoop(M, F, ind, hits, j + 1,
      [X EXCEPT
         !.out = Append(@, Printf("TRIGGER", F, 5, alloc.nodeId,
                   getTriggerFunctionForNode(alloc.nodeId, X.allocs, ind),
                   getSquashFunctionId)),
         !.lay = InsertAfter(@, TriggerInsertPt(M, X, alloc.allocCall),
                   GuardedCall(F, M.ins[alloc.allocCall].bb, Len(X.out) + 1,
                               <<"trigger", alloc.nodeId>>))]))

insertTriggerEdges(M, F, ind, X) ==
  With({ ind[i].destBase : i \in 1..Len(ind) } \cup { key[2] : key \in X.re },
       LAMBDA nodesWithIncomingEdges :
  With(SetToSeq({ i \in 1..Len(X.allocs) :
                    /\ M.ins[X.allocs[i].allocCall].fn = F
                    /\ X.allocs[i].registered
                    /\ X.allocs[i].basePtr \notin nodesWithIncomingEdges }), LAMBDA hits :
    TriggerLoop(M, F, ind, hits, 1, X)))

insertRuntimeCalls(M, F, ind, X) ==
  IF X.allocs = <<>> /\ ind = <<>> THEN X
  ELSE With(insertNodeRegistrations(M, F, X), LAMBDA X1 :
    insertTriggerEdges(M, F, ind,
      IF FunName(M, F) = N_main /\ ~(ind # <<>> /\ HasRegistrationPrintf(M, F, X1.out))
      THEN X1
      ELSE insertEdges(M, F, ind, X1)))

VARIABLES
  mod,                    \* the IR module being compiled
  pc,                     \* phase of the run
  fcur,                   \* functions still to process in the current phase
  ptrToNodeId,            \* BasePointerTracker::ptrToNodeId
  globalAllocations,      \* ProdigyPass::globalAllocations
  nextNodeId,             \* ProdigyPass::nextNodeId
  crashed,                \* the pass has faulted (fault, stack overflow)
  query,                  \* argument of the last getBasePointer call
  result,                 \* value returned by the last getBasePointer call
  compared,               \* arguments of the last areGEPsSimilar call
  similar,                \* value returned by the last areGEPsSimilar call
  traced,                 \* values visited by the last traceToLoad call
  steps,                  \* number of operations performed in a session
  indirections,           \* IndirectionDetector::indirections
  detectedPatterns,       \* IndirectionDetector::detectedPatterns
  detectedRangedPatterns, \* IndirectionDetector::detectedRangedPatterns
  accessorPatterns,       \* IndirectionDetector::accessorPatterns
  returned,               \* results of the detectIndirections calls so far
  globalIndirections,     \* ProdigyPass::globalIndirections
  registeredEdges,        \* ProdigyPass::registeredEdges
  emitted,                \* the printf calls inserted into the module
  layout,                 \* the instructions of the module, in program order
  flags,                  \* one-time flags set in the run of the compiled program
  printed,                \* registrations printed by that run, in order
  executed,               \* the blocks that run has executed, in order
  threads,                \* the threads of a concurrent run of the compiled program
  node,                   \* argument of the last getTriggerFunctionForNode call
  depth,                  \* depth computed for it
  trigger,                \* trigger function id chosen for it
  squash                  \* squash function id chosen for it

trackerVars == <<query, result, compared, similar, traced>>
detVars == <<indirections, detectedPatterns, detectedRangedPatterns,
             accessorPatterns, returned>>
runVars == <<flags, printed, executed, threads>>
insVars == <<globalIndirections, registeredEdges, emitted, layout, runVars>>
selVars == <<node, depth, trigger, squash>>
vars == <<mod, pc, fcur, ptrToNodeId, globalAllocations, nextNodeId, crashed,
          query, result, compared, similar, traced, steps, indirections, detectedPatterns,
          detectedRangedPatterns, accessorPatterns, returned,
          globalIndirections, registeredEdges, emitted,
          layout, flags, printed, executed, threads,
          node, depth, trigger, squash>>

\* a freshly constructed IndirectionDetector
DetectorInit ==
  /\ indirections = <<>>
  /\ detectedPatterns = {}
  /\ detectedRangedPatterns = {}
  /\ accessorPatterns = <<>>
  /\ returned = <<>>

TrackerIdle ==
  query = 0 /\ result = 0 /\ compared = <<>> /\ similar = FALSE /\ traced = {}

\* the compiled program has not run
MaxThreads == 2

\* a thread that has not started: at is the layout position of its next
\* instruction, need the flags its last load found false
ThreadIdle == [at |-> 0, need |-> {}]

RunIdle ==
  /\ flags = {} /\ printed = <<>> /\ executed = <<>>
  /\ threads = [t \in 1..MaxThreads |-> ThreadIdle]

InsertionInit ==
  /\ globalIndirections = <<>>
  /\ registeredEdges = {}
  /\ emitted = <<>>
  /\ layout = OrigLayout(mod)
  /\ RunIdle

SelectorIdle == node = UINT32_MAX /\ depth = 0 /\ trigger = 0 /\ squash = 0

\* the state after phase 1 of runOnModule on module M
Collected(M) ==
  With(CollectModule(M, "value"), LAMBDA c :
    /\ ptrToNodeId = c.map
    /\ globalAllocations = c.allocs
    /\ nextNodeId = c.next
    /\ crashed = c.crash)

\* ------------------------------------------------------------------------
\* Modules for the base-pointer tracker: one function with two heap
\* allocations, a global, a stack slot, an argument, loads, address
\* computations and two stores whose operands vary.
\* ------------------------------------------------------------------------
TrackerIR(p8, b9, p10, sv1, sp1, sv2, sp2, rev) ==
  [fns |-> << NFun(N_malloc, TRUE, TRUE), NFun(<<"f">>, FALSE, FALSE) >>,
   usesRev |-> rev, tyRev |-> FALSE,
   ins |-> <<
     IConst(0),                    \* 1
     IConst(1),                    \* 2
     IGlobal,                      \* 3  @g
     IArg(2),                      \* 4  %x
     IAlloca(2, 1),                \* 5  %s
     ICall(1, <<4>>, 2, 1),        \* 6  %a = malloc(%x)
     ICall(1, <<4>>, 2, 1),        \* 7  %b = malloc(%x)
     ILoad(p8, 8, 2, 1),           \* 8
     IGep(b9, <<1, 2>>, 2, 1),     \* 9  field 1 of a struct
     ILoad(p10, 8, 2, 1),          \* 10
     IGep(10, <<1, 2>>, 2, 1),     \* 11 field 1 of a loaded struct pointer
     IStore(sv1, sp1, 2, 1),       \* 12
     IStore(sv2, sp2, 2, 1),       \* 13
     ILoad(11, 8, 2, 1)            \* 14
   >>]

\* the operand pairs (value, location) tried for the two stores
Store1Choices == { <<6, 3>>, <<8, 3>>, <<10, 3>>, <<6, 5>> }
Store2Choices == { <<7, 11>>, <<8, 5>>, <<7, 3>>, <<10, 5>> }

TrackerModules ==
  { TrackerIR(3, b9, p10, s1[1], s1[2], s2[1], s2[2], rev) :
      b9 \in {4, 8}, p10 \in {5, 9},
      s1 \in Store1Choices, s2 \in Store2Choices,
      rev \in BOOLEAN }

MaxResolves == 2

\* the session starts after phase 1 has collected the allocations
InitTracker ==
  /\ mod \in TrackerModules
  /\ Collected(mod)
  /\ pc = "session"
  /\ fcur = <<>>
  /\ TrackerIdle
  /\ DetectorInit
  /\ InsertionInit
  /\ SelectorIdle
  /\ steps = 0

\* BasePointerTracker::getBasePointer(v)
Resolve(v) ==
  /\ pc = "session"
  /\ ~crashed
  /\ steps < MaxResolves
  /\ \E r \in {getBasePointer(mod, v, ptrToNodeId, {})} :
       /\ crashed' = r.div
       /\ ptrToNodeId' = r.map
       /\ query' = v
       /\ result' = r.res
  /\ steps' = steps + 1
  /\ UNCHANGED <<mod, pc, fcur, globalAllocations, nextNodeId, compared, similar>>
  /\ UNCHANGED <<traced, detVars, insVars, selVars>>

NextTracker == \E v \in Vals(mod) : K(mod, v) \notin {"store", "const"} /\ Resolve(v)

SpecTracker == InitTracker /\ [][NextTracker]_vars

\* ------------------------------------------------------------------------
\* Detection session: one detector and one tracker, after phase 1, with
\* the detector's public operations called in any order.  Function f
\* indexes arrays through loaded values (two sites), walks an offsets
\* array as a range, and calls the accessor "at".
\* ------------------------------------------------------------------------
DetectIR(sA, O1, O2, E, rev) ==
  [fns |-> << NFun(N_malloc, TRUE, TRUE), NFun(<<"f">>, FALSE, FALSE),
              NFun(N_at, FALSE, TRUE) >>,
   usesRev |-> rev, tyRev |-> FALSE,
   ins |-> <<
     IConst(0),                    \* 1
     IConst(1),                    \* 2
     IGlobal,                      \* 3  @G
     IArg(2),                      \* 4  %i
     ICall(1, <<4>>, 2, 1),        \* 5  %a = malloc(%i)
     ICall(1, <<4>>, 2, 1),        \* 6  %b = malloc(%i)
     IStore(sA, 3, 2, 1),          \* 7  G = a or b
     IGep(6, <<4>>, 2, 1),         \* 8  &b[i]
     ILoad(8, 4, 2, 1),            \* 9  b[i]
     IGep(O1, <<9>>, 2, 1),        \* 10 &O1[b[i]]
     ILoad(10, 4, 2, 1),           \* 11
     IGep(O2, <<9>>, 2, 1),        \* 12 &O2[b[i]]
     ILoad(12, 4, 2, 1),           \* 13
     IBin("add", 4, 2, 2, 1),      \* 14 i + 1
     IGep(6, <<14>>, 2, 1),        \* 15 &b[i+1]
     ILoad(15, 4, 2, 1),           \* 16 b[i+1]
     ICmp(4, 16, 2, 1),            \* 17 k < b[i+1]
     IBr(17, 2, 2, 1),             \* 18 br %17, bb2
     IGep(E, <<4>>, 2, 2),         \* 19 &E[k]
     ILoad(19, 4, 2, 2),           \* 20
     ICall(3, <<5>>, 2, 2),        \* 21 at(%a)
     IArg(3),                      \* 22 %this
     IGep(22, <<2>>, 3, 1),        \* 23
     ILoad(23, 4, 3, 1),           \* 24
     IGep(22, <<24>>, 3, 1),       \* 25
     ILoad(25, 4, 3, 1)            \* 26
   >>]

SiteChoices == { <<5, 5>>, <<6, 5>>, <<3, 3>>, <<5, 3>> }

DetectModules ==
  { DetectIR(sA, o[1], o[2], E, rev) :
      sA \in {5, 6}, o \in SiteChoices, E \in {5, 3}, rev \in BOOLEAN }

\* The CSR traversal of test_simple_ranged.c (simple_ranged_test):
\*   start = offset[v]; end = offset[v+1];
\*   for (j = start; j < end; j++) neighbor = edges[j];
\* CsrSlots keeps start, end and j in allocas (the unoptimized build),
\* CsrRegs keeps them in registers, j being a phi.
N_csr == <<"c","s","r">>

CsrFns == << NFun(N_malloc, TRUE, TRUE), NFun(N_csr, FALSE, FALSE) >>

CsrSlots(rev) ==
  [fns |-> CsrFns, usesRev |-> rev, tyRev |-> FALSE,
   ins |-> <<
     IConst(0),                    \* 1
     IConst(1),                    \* 2
     IArg(2),                      \* 3  %v
     ICall(1, <<3>>, 2, 1),        \* 4  %offset = malloc
     ICall(1, <<3>>, 2, 1),        \* 5  %edges = malloc
     IAlloca(2, 1),                \* 6  %start
     IAlloca(2, 1),                \* 7  %end
     IAlloca(2, 1),                \* 8  %j
     IGep(4, <<3>>, 2, 1),         \* 9  &offset[v]
     ILoad(9, 4, 2, 1),            \* 10 offset[v]
     IStore(10, 6, 2, 1),          \* 11 start = offset[v]
     IBin("add", 3, 2, 2, 1),      \* 12 v + 1
     IGep(4, <<12>>, 2, 1),        \* 13 &offset[v+1]
     ILoad(13, 4, 2, 1),           \* 14 offset[v+1]
     IStore(14, 7, 2, 1),          \* 15 end = offset[v+1]
     ILoad(6, 4, 2, 1),            \* 16 start
     IStore(16, 8, 2, 1),          \* 17 j = start
     ILoad(8, 4, 2, 2),            \* 18 j
     ILoad(7, 4, 2, 2),            \* 19 end
     ICmp(18, 19, 2, 2),           \* 20 j < end
     IBr(20, 3, 2, 2),             \* 21 br %20, bb3
     ILoad(8, 4, 2, 3),            \* 22 j
     ICast("sext", 22, 2, 3),      \* 23
     IGep(5, <<23>>, 2, 3),        \* 24 &edges[j]
     ILoad(24, 4, 2, 3),           \* 25 edges[j]
     ILoad(8, 4, 2, 3),            \* 26 j
     IBin("add", 26, 2, 2, 3),     \* 27 j + 1
     IStore(27, 8, 2, 3)           \* 28 j = j + 1
   >>]

CsrRegs(rev) ==
  [fns |-> CsrFns, usesRev |-> rev, tyRev |-> FALSE,
   ins |-> <<
     IConst(0),                    \* 1
     IConst(1),                    \* 2
     IArg(2),                      \* 3  %v
     ICall(1, <<3>>, 2, 1),        \* 4  %offset = malloc
     ICall(1, <<3>>, 2, 1),        \* 5  %edges = malloc
     IGep(4, <<3>>, 2, 1),         \* 6  &offset[v]
     ILoad(6, 4, 2, 1),            \* 7  offset[v]
     IBin("add", 3, 2, 2, 1),      \* 8  v + 1
     IGep(4, <<8>>, 2, 1),         \* 9  &offset[v+1]
     ILoad(9, 4, 2, 1),            \* 10 offset[v+1]
     IPhi(7, 16, 2, 2),            \* 11 j = phi(start, j + 1)
     ICmp(11, 10, 2, 2),           \* 12 j < end
     IBr(12, 3, 2, 2),             \* 13 br %12, bb3
     ICast("sext", 11, 2, 3),      \* 14
     IGep(5, <<14>>, 2, 3),        \* 15 &edges[j]
     ILoad(15, 4, 2, 3),           \* 16 edges[j]
     IBin("add", 11, 2, 2, 3)      \* 17 j + 1
   >>]

CsrModules == { CsrSlots(rev) : rev \in BOOLEAN } \cup { CsrRegs(rev) : rev \in BOOLEAN }

MaxChain == 9

\* a loop whose counter lives in a stack slot: the slot is initialised from
\* a[v] (heap) or from 0, advanced through a chain of len additions and sign
\* extensions of its own value, and the result indexes a
TraceSlots(len, heap, rev) ==
  [fns |-> CsrFns, usesRev |-> rev, tyRev |-> FALSE,
   ins |-> <<
     IConst(0),                              \* 1
     IConst(1),                              \* 2
     IArg(2),                                \* 3  %v
     ICall(1, <<3>>, 2, 1),                  \* 4  %a = malloc
     IAlloca(2, 1),                          \* 5  %i
     IGep(4, <<3>>, 2, 1),                   \* 6  &a[v]
     ILoad(6, 4, 2, 1),                      \* 7  a[v]
     IStore(IF heap THEN 7 ELSE 1, 5, 2, 1), \* 8  i = a[v]  or  i = 0
     ILoad(5, 4, 2, 2)                       \* 9  i
   >> \o
   [j \in 1..len |-> IF j % 2 = 1 THEN IBin("add", 8 + j, 2, 2, 2)
                                  ELSE ICast("sext", 8 + j, 2, 2)] \o
   <<
     IGep(4, <<9 + len>>, 2, 2),             \* &a[f(i)]
     ILoad(10 + len, 4, 2, 2),               \* a[f(i)]
     IStore(9 + len, 5, 2, 2)                \* i = f(i)
   >>]

TraceModules ==
  { TraceSlots(len, heap, rev) : len \in 1..MaxChain, heap \in BOOLEAN, rev \in BOOLEAN }

MaxDetectOps == 2

InitDetect ==
  /\ mod \in DetectModules \cup CsrModules \cup TraceModules
  /\ Collected(mod)
  /\ pc = "session"
  /\ fcur = <<>>
  /\ TrackerIdle
  /\ DetectorInit
  /\ InsertionInit
  /\ SelectorIdle
  /\ steps = 0

Detector ==
  [ind |-> indirections, dp |-> detectedPatterns, drp |-> detectedRangedPatterns,
   ap |-> accessorPatterns, map |-> ptrToNodeId, div |-> FALSE, ab |-> 0, rp |-> {}]

\* the detector and tracker fields after an operation that left them as D
DetectorBecomes(D) ==
  /\ indirections' = D.ind
  /\ detectedPatterns' = D.dp
  /\ detectedRangedPatterns' = D.drp
  /\ accessorPatterns' = D.ap
  /\ ptrToNodeId' = D.map
  /\ crashed' = D.div

SessionStep ==
  /\ pc = "session"
  /\ ~crashed
  /\ steps < MaxDetectOps
  /\ steps' = steps + 1
  /\ UNCHANGED <<mod, pc, fcur, globalAllocations, nextNodeId, trackerVars>>
  /\ UNCHANGED <<insVars, selVars>>

EdgeTriples(ind) ==
  { <<ind[i].srcNodeId, ind[i].destNodeId, ind[i].type>> : i \in 1..Len(ind) }

SingleValued(F) ==
  /\ SessionStep
  /\ ~IsBFSName(mod, F)
  /\ DetectorBecomes(identifySingleValuedIndirections(mod, Detector, F))
  /\ UNCHANGED returned

Ranged(F) ==
  /\ SessionStep
  /\ DetectorBecomes(identifyRangedIndirections(mod, Detector, F))
  /\ UNCHANGED returned

Detect(F) ==
  /\ SessionStep
  /\ ~IsBFSName(mod, F)
  /\ \E D \in {detectIndirections(mod, Detector, F, globalAllocations)} :
       /\ DetectorBecomes(D)
       /\ returned' = IF D.div THEN returned
                      ELSE Append(returned, <<F, EdgeTriples(D.ind)>>)

AnalyzeAccessor(F) ==
  /\ SessionStep
  /\ isSimpleAccessorFunction(mod, F)
  /\ DetectorBecomes(analyzeAccessorFunction(mod, Detector, F))
  /\ UNCHANGED returned

ClearIndirections ==
  /\ SessionStep
  /\ DetectorBecomes(clearIndirections(Detector))
  /\ UNCHANGED returned

\* the index operands identifySingleValuedIndirections hands to traceToLoad
TraceArgs(M) ==
  UNION { { IF K(M, M.ins[g].idx[i]) \in {"sext", "zext"} THEN M.ins[M.ins[g].idx[i]].a
            ELSE M.ins[g].idx[i] : i \in 1..Len(M.ins[g].idx) } :
          g \in { v \in Vals(M) : K(M, v) = "gep" } }

\* one traceToLoad call
Trace(V) ==
  /\ pc = "session"
  /\ ~crashed
  /\ steps < MaxDetectOps
  /\ steps' = steps + 1
  /\ \E r \in {TraceWalk(mod, <<V>>, {})} :
       /\ query' = V
       /\ result' = r.res
       /\ traced' = r.visited
  /\ UNCHANGED <<mod, pc, fcur, ptrToNodeId, globalAllocations, nextNodeId, crashed,
                 compared, similar, detVars, insVars, selVars>>

NextDetect ==
  \/ \E F \in SeqRange(DefinedFuns(mod)) : SingleValued(F)
  \/ \E F \in SeqRange(DefinedFuns(mod)) : Ranged(F)
  \/ \E F \in SeqRange(DefinedFuns(mod)) : Detect(F)
  \/ \E F \in SeqRange(DefinedFuns(mod)) : AnalyzeAccessor(F)
  \/ ClearIndirections
  \/ \E V \in TraceArgs(mod) : Trace(V)

SpecDetect == InitDetect /\ [][NextDetect]_vars

\* C1: after any sequence of detection operations, no recorded edge has
\* the same node as source and destination.
C1_NoSelfLoop ==
  \A i \in 1..Len(indirections) :
     indirections[i].srcNodeId # indirections[i].destNodeId

\* C2: the recorded edge set holds at most one edge per triple
\* (src_node_id, dest_node_id, kind).
C2_UniqueTriple ==
  \A i, j \in 1..Len(indirections) :
     (/\ indirections[i].srcNodeId = indirections[j].srcNodeId
      /\ indirections[i].destNodeId = indirections[j].destNodeId
      /\ indirections[i].type = indirections[j].type) => i = j

\* C6: two detectIndirections calls on the same function in one session
\* return the same set of (src, dest, kind) edges.
C6_DetectTwiceSame ==
  \A i, j \in 1..Len(returned) :
     returned[i][1] = returned[j][1] => returned[i][2] = returned[j][2]

\* ------------------------------------------------------------------------
\* The pass: runOnModule, one step per function and phase.
\* ------------------------------------------------------------------------
\* main calls one allocator, reads through the result and calls malloc(8);
\* a second function calls malloc or calloc
AllocArgs(kind, n, s) == IF kind \in {2, 3} THEN <<n, s>> ELSE <<s>>

CollectIR(kind1, size1, kind2, size2, name2) ==
  [fns |-> << NFun(N_malloc, TRUE, TRUE), NFun(N_calloc, TRUE, TRUE),
              NFun(N_realloc, TRUE, TRUE), NFun(N_Znwm, TRUE, TRUE),
              NFun(N_Znam, TRUE, TRUE), NFun(N_main, FALSE, FALSE),
              NFun(name2, FALSE, FALSE) >>,
   usesRev |-> FALSE, tyRev |-> FALSE,
   ins |-> <<
     IConst(0),                                \* 1
     IConst(4),                                \* 2
     IConst(8),                                \* 3
     IConst(SuspiciousSize),                   \* 4
     IConst(32),                               \* 5
     IArg(6),                                  \* 6  %n
     IBin("mul", 6, 2, 6, 1),                  \* 7  %n * 4
     IBin("shl", 6, 5, 6, 1),                  \* 8  %n << 32
     ICall(kind1, AllocArgs(kind1, 6, size1), 6, 1),   \* 9
     IGep(9, <<6>>, 6, 1),                     \* 10
     ILoad(10, 4, 6, 1),                       \* 11
     IArg(7),                                  \* 12 %m
     ICall(kind2, AllocArgs(kind2, 12, size2), 7, 1),  \* 13
     ICall(1, <<3>>, 6, 1)                     \* 14 malloc(8), in main
   >>]

\* main calls allocator kind with only nargs arguments (a callee declared
\* without a prototype), then malloc(8)
ShortArgsIR(kind, nargs) ==
  [fns |-> << NFun(N_malloc, TRUE, TRUE), NFun(N_calloc, TRUE, TRUE),
              NFun(N_realloc, TRUE, TRUE), NFun(N_Znwm, TRUE, TRUE),
              NFun(N_Znam, TRUE, TRUE), NFun(N_main, FALSE, FALSE) >>,
   usesRev |-> FALSE, tyRev |-> FALSE,
   ins |-> <<
     IConst(8),                                \* 1
     IArg(6),                                  \* 2  %n
     ICall(kind, SubSeq(<<2, 1>>, 1, nargs), 6, 1),    \* 3
     ICall(1, <<1>>, 6, 1)                     \* 4  malloc(8)
   >>]

ShortArgsModules == { ShortArgsIR(kind, 0) : kind \in 1..5 } \cup { ShortArgsIR(2, 1) }

\* test_constant_size_with_usage: main allocates a constant number of
\* bytes T and accesses the block twice with elements of store size ty,
\* by stores (st) or by loads
UsageIR(T, ty, st) ==
  [fns |-> << NFun(N_malloc, TRUE, TRUE), NFun(N_main, FALSE, FALSE) >>,
   usesRev |-> FALSE, tyRev |-> FALSE,
   ins |-> <<
     IConst(T),                    \* 1
     IArg(2),                      \* 2  %i
     ICall(1, <<1>>, 2, 1),        \* 3  %data = malloc(T)
     IAlloca(2, 1),                \* 4  %x
     ILoad(4, ty, 2, 1),           \* 5  x
     IGep(3, <<2>>, 2, 1),         \* 6  &data[i]
     IF st THEN IStore(5, 6, 2, 1) ELSE ILoad(6, ty, 2, 1),    \* 7
     IArg(2),                      \* 8  %j
     IGep(3, <<8>>, 2, 1),         \* 9  &data[j]
     IF st THEN IStore(5, 9, 2, 1) ELSE ILoad(9, ty, 2, 1)     \* 10
   >>]

UsageModules == { UsageIR(T, ty, st) : T \in {400, 200}, ty \in {2, 4}, st \in BOOLEAN }

N_g    == <<"g">>
N_comp == <<"c","o","m","p">>
N_run  == <<"r","u","n">>

CollectModules ==
  { CollectIR(k1, s1, k2, s2, n2) :
      k1 \in 1..5, s1 \in {1, 3, 4, 6, 7, 8},
      k2 \in {1, 2}, s2 \in {1, 3, 12}, n2 \in {N_g, N_comp} }

\* two allocations made in block ab of the entry function (named main or
\* run; block 1 is its entry block, block 2 a loop body) and published
\* through globals; function fw reads a[b[i]] through them
PipeIR(fm, fw, mainName, ab) ==
  [fns |-> [f \in 1..3 |-> IF f = 1 THEN NFun(N_malloc, TRUE, TRUE)
                           ELSE IF f = fm THEN NFun(mainName, FALSE, FALSE)
                           ELSE NFun(N_g, FALSE, FALSE)],
   usesRev |-> FALSE, tyRev |-> FALSE,
   ins |-> <<
     IConst(0),                    \* 1
     IConst(1),                    \* 2
     IGlobal,                      \* 3  @G
     IGlobal,                      \* 4  @H
     IArg(fm),                     \* 5  %n
     ICall(1, <<5>>, fm, ab),      \* 6  %a = malloc(%n)
     ICall(1, <<5>>, fm, ab),      \* 7  %b = malloc(%n)
     IStore(6, 3, fm, ab),         \* 8  G = a
     IStore(7, 4, fm, ab),         \* 9  H = b
     IArg(fw),                     \* 10 %i
     ILoad(4, 8, fw, 2),           \* 11 H
     IGep(11, <<10>>, fw, 2),      \* 12 &H[i]
     ILoad(12, 4, fw, 2),          \* 13 H[i]
     ILoad(3, 8, fw, 2),           \* 14 G
     IGep(14, <<13>>, fw, 2),      \* 15 &G[H[i]]
     ILoad(15, 4, fw, 2),          \* 16 G[H[i]]
     IAlloca(fm, 1)                \* 17 a stack slot of the entry block
   >>]

\* test_multi_level_indirection of test_single_valued.c:
\*   idx1 = C[i]; idx2 = B[idx1]; result += A[idx2];
\* ChainSlots keeps i, idx1 and idx2 in allocas, ChainRegs in registers;
\* the int indices are widened by sext.  main calls the function.
N_test == <<"t","e","s","t">>

ChainFns == << NFun(N_malloc, TRUE, TRUE), NFun(N_test, FALSE, FALSE),
               NFun(N_main, FALSE, FALSE) >>

ChainSlots(rev) ==
  [fns |-> ChainFns, usesRev |-> rev, tyRev |-> FALSE,
   ins |-> <<
     IConst(0),                    \* 1
     IConst(1),                    \* 2
     IArg(2),                      \* 3  %n
     ICall(1, <<3>>, 2, 1),        \* 4  %C = malloc
     ICall(1, <<3>>, 2, 1),        \* 5  %B = malloc
     ICall(1, <<3>>, 2, 1),        \* 6  %A = malloc
     IAlloca(2, 1),                \* 7  %idx1
     IAlloca(2, 1),                \* 8  %idx2
     IAlloca(2, 1),                \* 9  %i
     IStore(1, 9, 2, 1),           \* 10 i = 0
     ILoad(9, 4, 2, 2),            \* 11 i
     ICast("sext", 11, 2, 2),      \* 12
     IGep(4, <<12>>, 2, 2),        \* 13 &C[i]
     ILoad(13, 4, 2, 2),           \* 14 C[i]
     IStore(14, 7, 2, 2),          \* 15 idx1 = C[i]
     ILoad(7, 4, 2, 2),            \* 16 idx1
     ICast("sext", 16, 2, 2),      \* 17
     IGep(5, <<17>>, 2, 2),        \* 18 &B[idx1]
     ILoad(18, 4, 2, 2),           \* 19 B[idx1]
     IStore(19, 8, 2, 2),          \* 20 idx2 = B[idx1]
     ILoad(8, 4, 2, 2),            \* 21 idx2
     ICast("sext", 21, 2, 2),      \* 22
     IGep(6, <<22>>, 2, 2),        \* 23 &A[idx2]
     ILoad(23, 4, 2, 2),           \* 24 A[idx2]
     ILoad(9, 4, 2, 2),            \* 25 i
     IBin("add", 25, 2, 2, 2),     \* 26 i + 1
     IStore(26, 9, 2, 2),          \* 27 i = i + 1
     ICall(2, <<2>>, 3, 1)         \* 28 test(1), in main
   >>]

ChainRegs(rev) ==
  [fns |-> ChainFns, usesRev |-> rev, tyRev |-> FALSE,
   ins |-> <<
     IConst(0),                    \* 1
     IConst(1),                    \* 2
     IArg(2),                      \* 3  %n
     ICall(1, <<3>>, 2, 1),        \* 4  %C = malloc
     ICall(1, <<3>>, 2, 1),        \* 5  %B = malloc
     ICall(1, <<3>>, 2, 1),        \* 6  %A = malloc
     IPhi(1, 17, 2, 2),            \* 7  i = phi(0, i + 1)
     ICast("sext", 7, 2, 2),       \* 8
     IGep(4, <<8>>, 2, 2),         \* 9  &C[i]
     ILoad(9, 4, 2, 2),            \* 10 C[i]
     ICast("sext", 10, 2, 2),      \* 11
     IGep(5, <<11>>, 2, 2),        \* 12 &B[C[i]]
     ILoad(12, 4, 2, 2),           \* 13 B[C[i]]
     ICast("sext", 13, 2, 2),      \* 14
     IGep(6, <<14>>, 2, 2),        \* 15 &A[B[C[i]]]
     ILoad(15, 4, 2, 2),           \* 16 A[B[C[i]]]
     IBin("add", 7, 2, 2, 2),      \* 17 i + 1
     ICall(2, <<2>>, 3, 1)         \* 18 test(1), in main
   >>]

ChainModules ==
  { ChainSlots(rev) : rev \in BOOLEAN } \cup { ChainRegs(rev) : rev \in BOOLEAN }

PipeModules ==
  { PipeIR(fm, fw, n, ab) : fm \in {2, 3}, fw \in {2, 3}, n \in {N_main, N_run},
                            ab \in {1, 2} }

\* the same program with the roles exchanged: a function g makes the two
\* allocations and main reads a[b[i]] through the globals
ReaderMainIR(fm, fw, ab) ==
  [PipeIR(fm, fw, N_run, ab) EXCEPT
     !.fns = [f \in 1..3 |-> IF f = 1 THEN NFun(N_malloc, TRUE, TRUE)
                             ELSE IF f = fw THEN NFun(N_main, FALSE, FALSE)
                             ELSE NFun(N_g, FALSE, FALSE)]]

ReaderMainModules ==
  { ReaderMainIR(fm, fw, ab) : <<fm, fw>> \in {<<2, 3>>, <<3, 2>>}, ab \in {1, 2} }

Init ==
  /\ mod \in CollectModules \cup PipeModules \cup ChainModules \cup ShortArgsModules
             \cup UsageModules \cup ReaderMainModules
  /\ pc = "collect"
  /\ fcur = DefinedFuns(mod)
  /\ ptrToNodeId = <<>>
  /\ globalAllocations = <<>>
  /\ nextNodeId = 0
  /\ crashed = FALSE
  /\ TrackerIdle
  /\ DetectorInit
  /\ InsertionInit
  /\ SelectorIdle
  /\ steps = 0

\* variant: phases interleaved per function (detection of one function is
\* followed by collection of the next)
Advance_Interleaved(ph, next) ==
  IF Len(fcur) > 1
  THEN pc' = (IF ph = "detect" THEN "collect" ELSE ph) /\ fcur' = Tail(fcur)
  ELSE pc' = next /\ fcur' = DefinedFuns(mod)

\* the phase after ph, entered when the function list is exhausted
Advance(ph, next) ==
  IF Len(fcur) > 1
  THEN pc' = ph /\ fcur' = Tail(fcur)
  ELSE pc' = next /\ fcur' = DefinedFuns(mod)

\* phase 1: collectAllocations(F)
Collect ==
  /\ pc = "collect" /\ ~crashed /\ fcur # <<>>
  /\ \E ub \in {"crash", "value"} :
       \E st \in {collectAllocations(mod, Head(fcur),
                     [allocs |-> globalAllocations, next |-> nextNodeId,
                      map |-> ptrToNodeId, crash |-> FALSE], ub)} :
          /\ globalAllocations' = st.allocs
          /\ nextNodeId' = st.next
          /\ ptrToNodeId' = st.map
          /\ crashed' = st.crash
  /\ Advance("collect", "detect")
  /\ UNCHANGED <<mod, steps, trackerVars, detVars, insVars, selVars>>

\* phase 2: ProdigyPass::detectIndirections(F)
PassDetect ==
  /\ pc = "detect" /\ ~crashed /\ fcur # <<>>
  /\ ~IsBFSName(mod, Head(fcur))
  /\ \E D \in {passDetect(mod, Detector, Head(fcur))} :
        /\ DetectorBecomes(D)
        /\ globalIndirections' =
             IF D.ind = <<>> \/ D.div THEN globalIndirections
             ELSE [x \in (DOMAIN globalIndirections) \cup {Head(fcur)} |->
                     IF x = Head(fcur) THEN D.ind ELSE globalIndirections[x]]
  /\ Advance("detect", "header")
  /\ UNCHANGED <<mod, steps, globalAllocations, nextNodeId, trackerVars, returned,
                 registeredEdges, emitted, layout, runVars, selVars>>

\* the insertion state: the allocation records (whose registered flag the
\* insertion sets), the edges registered so far, the emitted calls and
\* the layout of the module
Inserter ==
  [allocs |-> globalAllocations, re |-> registeredEdges, out |-> emitted,
   lay |-> layout, at |-> 0, bb |-> 0]

\* insertGlobalDIGHeader(M)
Header ==
  /\ pc = "header" /\ ~crashed
  /\ \E X \in {insertGlobalDIGHeader(mod, Inserter)} :
       emitted' = X.out /\ layout' = X.lay
  /\ pc' = "insert"
  /\ UNCHANGED <<mod, fcur, steps, ptrToNodeId, globalAllocations, nextNodeId, crashed,
                 trackerVars, detVars, globalIndirections, registeredEdges, runVars,
                 selVars>>

\* phase 3: insertRuntimeCalls(F), skipped for OpenMP runtime names
Insert ==
  /\ pc = "insert" /\ ~crashed /\ fcur # <<>>
  /\ \E X \in {IF IsOmpName(FunName(mod, Head(fcur))) THEN Inserter
               ELSE insertRuntimeCalls(mod, Head(fcur),
                      IF Head(fcur) \in DOMAIN globalIndirections
                      THEN globalIndirections[Head(fcur)] ELSE <<>>, Inserter)} :
        /\ globalAllocations' = X.allocs
        /\ registeredEdges' = X.re
        /\ emitted' = X.out
        /\ layout' = X.lay
  /\ Advance("insert", "done")
  /\ UNCHANGED <<mod, steps, ptrToNodeId, nextNodeId, crashed, trackerVars, detVars,
                 globalIndirections, runVars, selVars>>

MaxExecs == 2

RECURSIVE RunItems(_, _, _)
\* the instructions of one block executed in order.  need holds the flags
\* whose load found them false: the guarded printf prints exactly then.
RunItems(items, k, st) ==
  IF k > Len(items) THEN st
  ELSE With(items[k], LAMBDA it :
    RunItems(items, k + 1,
      CASE it.kind = "load" ->
             [st EXCEPT !.need = IF it.flag \in st.flags THEN @ \ {it.flag}
                                 ELSE @ \cup {it.flag}]
        [] it.kind = "printf" ->
             IF it.flag = <<>> \/ it.flag \in st.need
             THEN [st EXCEPT !.printed = Append(@, it.n)] ELSE st
        [] it.kind = "store" -> [st EXCEPT !.flags = @ \cup {it.flag}]
        [] OTHER -> st))

\* the blocks of the compiled module
LayoutBlocks == { <<layout[p].fn, layout[p].bb>> : p \in 1..Len(layout) }

\* The compiled program executes block B of function F once.  The control
\* flow between blocks is left open: a block may lie in a loop or in a
\* function that is called repeatedly, so any block may execute any number
\* of times, except the entry block of main, which executes once.
Execute(F, B) ==
  /\ pc = "done" /\ ~crashed
  /\ Len(executed) < MaxExecs
  /\ <<F, B>> \in LayoutBlocks
  /\ (F = MainFun(mod) /\ B = EntryBlock(mod, F)) => <<F, B>> \notin SeqRange(executed)
  /\ \E st \in {RunItems(SeqFilter(layout, { it \in SeqRange(layout) :
                                              it.fn = F /\ it.bb = B }),
                          1, [flags |-> flags, need |-> {}, printed |-> printed])} :
       flags' = st.flags /\ printed' = st.printed
  /\ executed' = Append(executed, <<F, B>>)
  /\ UNCHANGED <<mod, pc, fcur, steps, ptrToNodeId, globalAllocations, nextNodeId,
                 crashed, trackerVars, detVars, globalIndirections, registeredEdges,
                 emitted, layout, threads, selVars>>

Next ==
  \/ Collect \/ PassDetect \/ Header \/ Insert
  \/ \E blk \in LayoutBlocks : Execute(blk[1], blk[2])

Spec == Init /\ [][Next]_vars

\* ------------------------------------------------------------------------
\* The compiled program run by several threads.  The guard of a
\* registration is a plain load of the flag, a select of the format string,
\* the printf call and a plain store of true: the threads interleave
\* between these instructions.
\* ------------------------------------------------------------------------
\* the blocks that hold a guarded registration, outside main
GuardBlocks ==
  { <<layout[p].fn, layout[p].bb>> :
      p \in { q \in 1..Len(layout) : /\ layout[q].kind = "load"
                                      /\ layout[q].fn # MainFun(mod) } }

\* the layout positions of block B of F
BlockPositions(F, B) == { p \in 1..Len(layout) : layout[p].fn = F /\ layout[p].bb = B }

\* the position after p in its block; past the layout when the block ends
NextPosition(p) ==
  With({ q \in BlockPositions(layout[p].fn, layout[p].bb) : q > p }, LAMBDA after :
    IF after = {} THEN Len(layout) + 1
    ELSE CHOOSE q \in after : \A r \in after : q <= r)

\* thread t starts executing block B of function F
Enter(t, F, B) ==
  /\ pc = "done" /\ ~crashed
  /\ executed = <<>>
  /\ threads[t].at = 0
  /\ <<F, B>> \in GuardBlocks
  /\ threads' = [threads EXCEPT ![t].at =
                   CHOOSE p \in BlockPositions(F, B) : \A r \in BlockPositions(F, B) : p <= r]
  /\ UNCHANGED <<mod, pc, fcur, steps, ptrToNodeId, globalAllocations, nextNodeId,
                 crashed, trackerVars, detVars, globalIndirections, registeredEdges,
                 emitted, layout, flags, printed, executed, selVars>>

\* the values a plain load of flag can yield in thread t: the flag as it
\* is, or, when it was set while another thread runs, still false (the
\* load and the store are not ordered)
FlagValues(t, flag) ==
  IF flag \notin flags THEN {FALSE}
  ELSE IF \E o \in 1..MaxThreads : o # t /\ threads[o].at # 0 THEN {TRUE, FALSE}
  ELSE {TRUE}

\* thread t executes its next instruction
Step(t) ==
  /\ pc = "done" /\ ~crashed
  /\ threads[t].at \in 1..Len(layout)
  /\ \E it \in {layout[threads[t].at]} :
       \E seen \in (IF it.kind = "load" THEN FlagValues(t, it.flag) ELSE {FALSE}) :
         /\ threads' = [threads EXCEPT
                          ![t].at = NextPosition(threads[t].at),
                          ![t].need = IF it.kind # "load" THEN @
                                      ELSE IF seen THEN @ \ {it.flag} ELSE @ \cup {it.flag}]
         /\ printed' = IF it.kind = "printf" /\ (it.flag = <<>> \/ it.flag \in threads[t].need)
                        THEN Append(printed, it.n) ELSE printed
         /\ flags' = IF it.kind = "store" THEN flags \cup {it.flag} ELSE flags
  /\ UNCHANGED <<mod, pc, fcur, steps, ptrToNodeId, globalAllocations, nextNodeId,
                 crashed, trackerVars, detVars, globalIndirections, registeredEdges,
                 emitted, layout, executed, selVars>>

\* units whose allocations are made outside main
ThreadModules ==
  ReaderMainModules \cup { PipeIR(fm, fw, N_run, ab) : fm \in {2, 3}, fw \in {2, 3},
                                                       ab \in {1, 2} }

InitThreads == mod \in ThreadModules /\ Init

NextThreads ==
  \/ Collect \/ PassDetect \/ Header \/ Insert
  \/ \E t \in 1..MaxThreads : \E blk \in GuardBlocks : Enter(t, blk[1], blk[2])
  \/ \E t \in 1..MaxThreads : Step(t)

SpecThreads == InitThreads /\ [][NextThreads]_vars

\* ------------------------------------------------------------------------
\* Trigger selection on its own: getTriggerFunctionForNode applied to edge
\* lists over nodes 0..MaxNode.  The lists hold forward edges (from a node
\* to a node of larger number, at most MaxSpan apart), optionally closed
\* into a cycle by the edge from the last node back to node 0, and
\* optionally with self-loops on nodes 0 and 1.
\* ------------------------------------------------------------------------
MaxNode == 4
MaxSpan == 2

ForwardPairs ==
  { p \in (0..MaxNode) \X (0..MaxNode) : p[1] < p[2] /\ p[2] - p[1] <= MaxSpan }

\* the edge list of a set of node pairs, in lexicographic order
RECURSIVE PairsToEdges(_)
PairsToEdges(S) ==
  IF S = {} THEN <<>>
  ELSE LET m == CHOOSE p \in S : \A q \in S :
                  p[1] < q[1] \/ (p[1] = q[1] /\ p[2] <= q[2])
       IN << [type |-> "SingleValued", srcBase |-> m[1] + 1, destBase |-> m[2] + 1,
              accessInst |-> 0, srcNodeId |-> m[1], destNodeId |-> m[2]] >>
          \o PairsToEdges(S \ {m})

InitSelect ==
  /\ mod = [fns |-> <<>>, usesRev |-> FALSE, tyRev |-> FALSE, ins |-> <<>>]
  /\ pc = "select"
  /\ fcur = <<>>
  /\ ptrToNodeId = <<>>
  /\ globalAllocations = <<>>
  /\ nextNodeId = 0
  /\ crashed = FALSE
  /\ TrackerIdle
  /\ \E S \in SUBSET ForwardPairs : \E back \in BOOLEAN : \E self \in SUBSET {0, 1} :
       indirections = PairsToEdges(S \cup (IF back THEN {<<MaxNode, 0>>} ELSE {})
                                     \cup { <<n, n>> : n \in self })
  /\ detectedPatterns = {}
  /\ detectedRangedPatterns = {}
  /\ accessorPatterns = <<>>
  /\ returned = <<>>
  /\ InsertionInit
  /\ SelectorIdle
  /\ steps = 0

\* getTriggerFunctionForNode(n, allocations, indirections) and
\* getSquashFunctionId(), as insertTriggerEdges calls them
Select(n) ==
  /\ pc = "select"
  /\ node = UINT32_MAX
  /\ node' = n
  /\ depth' = calculateDIGDepthFromNode(n, indirections)
  /\ trigger' = getTriggerFunctionForNode(n, globalAllocations, indirections)
  /\ squash' = getSquashFunctionId
  /\ UNCHANGED <<mod, pc, fcur, ptrToNodeId, globalAllocations, nextNodeId, crashed,
                 steps, trackerVars, detVars, insVars>>

NextSelect == \E n \in 0..MaxNode : Select(n)

SpecSelect == InitSelect /\ [][NextSelect]_vars

\* ------------------------------------------------------------------------
\* GEP similarity on its own: areGEPsSimilar applied to two address
\* computations over the same pointer, with index lists of 1..MaxIndices
\* entries drawn from the constants 0 and 1 and a non-constant value.
\* ------------------------------------------------------------------------
MaxIndices == 3

GepIR(L1, L2) ==
  [fns |-> << NFun(<<"f">>, FALSE, FALSE) >>,
   usesRev |-> FALSE, tyRev |-> FALSE,
   ins |-> <<
     IConst(0),                    \* 1
     IConst(1),                    \* 2
     IArg(1),                      \* 3  %x
     IArg(1),                      \* 4  %p
     IGep(4, L1, 1, 1),            \* 5
     IGep(4, L2, 1, 1)             \* 6
   >>]

IndexLists == UNION { [1..n -> 1..3] : n \in 1..MaxIndices }

InitSimilar ==
  /\ mod \in { GepIR(L1, L2) : L1 \in IndexLists, L2 \in IndexLists }
  /\ pc = "similar"
  /\ fcur = <<>>
  /\ ptrToNodeId = <<>>
  /\ globalAllocations = <<>>
  /\ nextNodeId = 0
  /\ crashed = FALSE
  /\ TrackerIdle
  /\ DetectorInit
  /\ InsertionInit
  /\ SelectorIdle
  /\ steps = 0

\* areGEPsSimilar(GEP1, GEP2)
Compare(GEP1, GEP2) ==
  /\ pc = "similar"
  /\ compared = <<>>
  /\ compared' = <<GEP1, GEP2>>
  /\ similar' = areGEPsSimilar(mod, GEP1, GEP2)
  /\ UNCHANGED <<mod, pc, fcur, ptrToNodeId, globalAllocations, nextNodeId, crashed,
                 query, result, traced, steps, detVars, insVars, selVars>>

NextSimilar ==
  \E GEP1, GEP2 \in { g \in Vals(mod) : K(mod, g) = "gep" } : Compare(GEP1, GEP2)

SpecSimilar == InitSimilar /\ [][NextSimilar]_vars

\* ------------------------------------------------------------------------
\* Properties of the pass as a whole
\* ------------------------------------------------------------------------
\* the trigger registrations emitted for node n
TriggersOf(n) == { k \in 1..Len(emitted) : emitted[k].kind = "TRIGGER" /\ emitted[k].a = n }

\* some edge recorded for some function of the unit has n as destination
HasIncomingEdge(n) ==
  \E F \in DOMAIN globalIndirections :
    \E j \in 1..Len(globalIndirections[F]) : globalIndirections[F][j].destNodeId = n

\* C3: after the insertion phase has processed every function, a node has
\* a trigger registration if and only if no edge recorded anywhere in the
\* unit has it as destination, and no node has more than one.
C3_TriggerIffNoIncoming ==
  (pc = "done" /\ ~crashed) =>
    \A i \in 1..Len(globalAllocations) :
      /\ Cardinality(TriggersOf(globalAllocations[i].nodeId)) <= 1
      /\ (TriggersOf(globalAllocations[i].nodeId) # {})
           <=> ~HasIncomingEdge(globalAllocations[i].nodeId)

\* C7: every allocation record has, after inference, an element byte size
\* of at least 1 and an element count that is present.
C7_ElementSizeAtLeastOne ==
  \A i \in 1..Len(globalAllocations) :
    /\ globalAllocations[i].elementSize.kind # "null"
    /\ globalAllocations[i].elementSize.kind = "const"
         => globalAllocations[i].elementSize.c >= 1
    /\ globalAllocations[i].numElements.kind # "null"

\* C8: at every point of a run no two allocation records have the same
\* node id.
C8_UniqueNodeIds ==
  \A i, j \in 1..Len(globalAllocations) :
    i # j => globalAllocations[i].nodeId # globalAllocations[j].nodeId

\* two records were made although an allocation call of a processed
\* function was passed over
C8_TwoRecordsOneSkipped ==
  /\ Len(globalAllocations) >= 2
  /\ pc = "detect"
  /\ \E u \in Vals(mod) :
       /\ K(mod, u) = "call" /\ mod.ins[u].cf # 0
       /\ CalleeName(mod, u) \in AllocNames
       /\ \A i \in 1..Len(globalAllocations) : globalAllocations[i].allocCall # u

\* ------------------------------------------------------------------------
\* Properties of the trigger selection
\* ------------------------------------------------------------------------
EdgePairs(ind) == { <<ind[k].srcNodeId, ind[k].destNodeId>> : k \in 1..Len(ind) }

\* nodes reachable from the nodes of S by one or more edges
RECURSIVE ReachFrom(_, _)
ReachFrom(E, S) ==
  With(S \cup { e[2] : e \in { d \in E : d[1] \in S } }, LAMBDA T :
    IF T = S THEN S ELSE ReachFrom(E, T))

Acyclic(E) == \A e \in E : e[1] \notin ReachFrom(E, {e[2]})

\* number of edges on the longest forward path from n (acyclic E)
RECURSIVE LongestPath(_, _)
LongestPath(E, n) ==
  With({ e[2] : e \in { d \in E : d[1] = n } }, LAMBDA succ :
    IF succ = {} THEN 0
    ELSE 1 + (CHOOSE m \in { LongestPath(E, x) : x \in succ } :
                \A k \in { LongestPath(E, x) : x \in succ } : k <= m))

\* the selector the depth table names
SelectorOfDepth(d) ==
  IF d >= 4 THEN StaticOffset_1
  ELSE IF d = 3 THEN StaticOffset_2
  ELSE IF d = 2 THEN StaticOffset_8
  ELSE StaticOffset_16

Selected == pc = "select" /\ node # UINT32_MAX

\* C4: for an acyclic edge set, the DIG depth computed for n is the number
\* of edges on the longest forward path starting at n.
C4_DepthIsLongestPath ==
  (Selected /\ Acyclic(EdgePairs(indirections)))
    => depth = LongestPath(EdgePairs(indirections), node)

\* C5: the trigger selector of a node is given by its DIG depth (the
\* longest forward path): depth >= 4 distance 1, depth 3 distance 2, depth
\* 2 distance 8, depth 0 or 1 distance 16; the squash selector is never
\* squash.
C5_SelectorByDepth ==
  (Selected /\ Acyclic(EdgePairs(indirections)))
    => /\ trigger = SelectorOfDepth(LongestPath(EdgePairs(indirections), node))
       /\ squash = NeverSquash

\* ------------------------------------------------------------------------
\* Provenance of a value: what getBasePointer may look through.
\* ------------------------------------------------------------------------
StoredValues(M, ss) == { M.ins[ss[i]].a : i \in 1..Len(ss) }

ProvStep(M, x) ==
  CASE K(M, x) = "gep" ->
         {M.ins[x].a} \cup StoredValues(M, SimilarStores(M, x))
    [] K(M, x) = "global" -> StoredValues(M, UserStoresTo(M, x))
    [] K(M, x) = "load" ->
         StoredValues(M, UserStoresTo(M, M.ins[x].a)) \cup
         (IF K(M, M.ins[x].a) = "gep"
          THEN StoredValues(M, SimilarStores(M, M.ins[x].a)) ELSE {})
    [] OTHER -> {}

RECURSIVE ProvClosure(_, _)
ProvClosure(M, S) ==
  LET T == S \cup UNION { ProvStep(M, x) : x \in S }
  IN IF T = S THEN S ELSE ProvClosure(M, T)

\* a value at which the walk can stop without having found an allocation
IsProvRoot(M, x) ==
  /\ K(M, x) # "gep"
  /\ K(M, x) = "global" => UserStoresTo(M, x) = <<>>

Returned == pc = "session" /\ query # 0 /\ ~crashed

\* C9 (as stated): resolve(v) returns either a value registered as a
\* known allocation or v itself, never a third value.
C9_RegisteredOrSelf ==
  Returned => (isRegistered(ptrToNodeId, result) \/ result = query)

\* C9 (amended): when resolve(v) returns, the result is a registered
\* value, or an unregistered value reached from v by peeling address
\* computations and following stored values (v included) that is neither
\* an address computation nor a global variable that has a store.
C9_RegisteredOrRoot ==
  Returned =>
    \/ isRegistered(ptrToNodeId, result)
    \/ /\ result \in ProvClosure(mod, {query})
       /\ IsProvRoot(mod, result)

\* resolve peeled an address computation down to an unregistered value
C9_PeeledToUnregistered ==
  /\ Returned
  /\ K(mod, query) = "gep"
  /\ ~isRegistered(ptrToNodeId, result)
  /\ result # query

\* C10: resolve(v) terminates for every v, cyclic provenance included:
\* no call recurses without bound.
C10_ResolveTerminates == ~(pc = "session" /\ query # 0 /\ crashed)

\* ------------------------------------------------------------------------
\* Independence of getBasePointer from earlier calls
\* ------------------------------------------------------------------------
\* the tracker as phase 1 leaves it: the registered allocations, before
\* any getBasePointer call has added an alias
FreshResolve(v) == getBasePointer(mod, v, CollectModule(mod, "value").map, {})

\* C11: with the registered allocations fixed, the value returned by
\* getBasePointer(v) is the one a tracker without earlier calls returns;
\* in particular a repeated call returns the same value.
C11_ResolveIgnoresHistory ==
  (pc = "session" /\ query # 0 /\ ~crashed /\ ~FreshResolve(query).div)
    => result = FreshResolve(query).res

\* ------------------------------------------------------------------------
\* Node ids of the edges detectIndirections returns
\* ------------------------------------------------------------------------
\* the node ids of the allocation records
RecordIds == { globalAllocations[k].nodeId : k \in 1..Len(globalAllocations) }

\* C12: every edge in a set returned by detectIndirections has a source
\* and a destination node id that each identify an allocation record,
\* never the invalid id.
C12_ReturnedEdgesValid ==
  \A i \in 1..Len(returned) :
    \A t \in returned[i][2] : t[1] \in RecordIds /\ t[2] \in RecordIds

\* ------------------------------------------------------------------------
\* Order of the phases of runOnModule
\* ------------------------------------------------------------------------
\* C13: allocation collection has finished for every function before
\* detection starts on any function: while collecting, nothing of the
\* detection state changes; once collecting has ended it is never resumed,
\* no allocation record is created and no node id is consumed.
C13_CollectBeforeDetect ==
  [][ /\ pc = "collect" => (detVars' = detVars /\ globalIndirections' = globalIndirections)
      /\ pc # "collect" => /\ pc' # "collect"
                           /\ Len(globalAllocations') = Len(globalAllocations)
                           /\ nextNodeId' = nextNodeId ]_vars

\* a run in which records were collected in two functions and detection
\* then recorded an edge
C13_DetectedAfterCollect ==
  /\ pc = "header"
  /\ Len(globalAllocations) >= 2
  /\ globalIndirections # <<>>

\* ------------------------------------------------------------------------
\* Placement of the inserted registration calls
\* ------------------------------------------------------------------------
\* node registrations come first, then edges, then triggers
RegRank(kind) == CASE kind = "NODE" -> 1 [] kind = "EDGE" -> 2 [] kind = "TRIGGER" -> 3
                   [] OTHER -> 0

\* the registration calls inserted for function F: the node and trigger
\* registrations of its allocations and the registrations of its edges
RegsFor(F) ==
  { n \in 1..Len(emitted) :
      \/ emitted[n].kind \in {"NODE", "TRIGGER"} /\ emitted[n].fn = F
      \/ /\ emitted[n].kind = "EDGE"
         /\ F \in DOMAIN globalIndirections
         /\ \E j \in 1..Len(globalIndirections[F]) :
              /\ globalIndirections[F][j].srcNodeId = emitted[n].a
              /\ globalIndirections[F][j].destNodeId = emitted[n].b
              /\ getTraversalFunctionId(globalIndirections[F][j].type) = emitted[n].c }

\* positions i < j of one basic block: i executes before j whenever the
\* block runs
SameBlockBefore(i, j) ==
  /\ i < j
  /\ layout[i].fn = layout[j].fn /\ layout[i].bb = layout[j].bb
  /\ layout[i].kind = "printf" /\ layout[j].kind = "printf"

\* C14: of the registration calls inserted for a function, every node
\* registration executes before every edge registration and every edge
\* registration before every trigger registration.
C14_NodesEdgesTriggers ==
  pc = "done" =>
    \A F \in SeqRange(DefinedFuns(mod)) :
      \A i, j \in 1..Len(layout) :
        (SameBlockBefore(i, j) /\ layout[i].n \in RegsFor(F) /\ layout[j].n \in RegsFor(F))
          => RegRank(emitted[layout[i].n].kind) <= RegRank(emitted[layout[j].n].kind)

\* ------------------------------------------------------------------------
\* Output of the compiled program
\* ------------------------------------------------------------------------
\* how many times the inserted call n has printed
TimesPrinted(n) == Cardinality({ k \in 1..Len(printed) : printed[k] = n })

\* the block that holds the inserted call n has been executed
Reached(n) ==
  \E p \in 1..Len(layout) :
    /\ layout[p].kind = "printf" /\ layout[p].n = n
    /\ <<layout[p].fn, layout[p].bb>> \in SeqRange(executed)

\* C15: each NODE, EDGE and TRIGGER registration whose insertion point the
\* run has reached has been printed exactly once, however many times its
\* block has executed.
C15_PrintedOnce ==
  \A n \in 1..Len(emitted) :
    (emitted[n].kind \in {"NODE", "EDGE", "TRIGGER"} /\ Reached(n))
      => TimesPrinted(n) = 1

\* ------------------------------------------------------------------------
\* C16: on the CSR traversal (start = offset[v], end = offset[v+1], a loop
\* of j from start to end reading edges[j]), detection yields exactly one
\* Ranged edge from offset to edges and no SingleValued edge between the
\* two, whether start, end and j live in registers or in stack slots.
\* In both CSR modules the first allocation is offset, the second edges.
\* ------------------------------------------------------------------------
\* the allocation calls of the module, in program order
AllocCalls ==
  SeqFilter([u \in Vals(mod) |-> u],
            { u \in Vals(mod) : K(mod, u) = "call" /\ mod.ins[u].cf # 0
                                 /\ CalleeName(mod, u) \in AllocNames })

CsrOffset == AllocCalls[1]
CsrEdges == AllocCalls[2]

EdgesOfType(type, src, dest) ==
  { i \in 1..Len(indirections) :
      /\ indirections[i].type = type
      /\ indirections[i].srcBase = src
      /\ indirections[i].destBase = dest }

CsrDetected == mod \in CsrModules /\ steps = 1 /\ Len(returned) = 1 /\ ~crashed

C16_CsrOneRangedEdge ==
  CsrDetected =>
    /\ Cardinality(EdgesOfType("Ranged", CsrOffset, CsrEdges)) = 1
    /\ EdgesOfType("SingleValued", CsrOffset, CsrEdges) = {}
    /\ EdgesOfType("SingleValued", CsrEdges, CsrOffset) = {}

\* the register form alone
C16_CsrRegsOneRangedEdge ==
  (CsrDetected /\ K(mod, 6) # "alloca") =>
    /\ Cardinality(EdgesOfType("Ranged", CsrOffset, CsrEdges)) = 1
    /\ EdgesOfType("SingleValued", CsrOffset, CsrEdges) = {}
    /\ EdgesOfType("SingleValued", CsrEdges, CsrOffset) = {}

\* ------------------------------------------------------------------------
\* C17: for three distinct allocations read as A[B[C[i]]], the indices
\* passing through local temporaries and sext, the function's edges are
\* exactly two SingleValued edges, C -> B and B -> A (no edge C -> A), and
\* node C receives a trigger whose function is the look-ahead of 8.
\* In both chain modules the allocations are C, B, A in this order.
\* ------------------------------------------------------------------------
ChainC == AllocCalls[1]
ChainB == AllocCalls[2]
ChainA == AllocCalls[3]
ChainFun == mod.ins[ChainC].fn

ChainEdges ==
  IF ChainFun \in DOMAIN globalIndirections THEN globalIndirections[ChainFun] ELSE <<>>

ChainEdgeIdx(type, src, dest) ==
  { i \in 1..Len(ChainEdges) :
      /\ ChainEdges[i].type = type
      /\ ChainEdges[i].srcBase = src
      /\ ChainEdges[i].destBase = dest }

ChainTriggers ==
  { n \in 1..Len(emitted) :
      /\ emitted[n].kind = "TRIGGER"
      /\ emitted[n].a = getNodeIdFromBase(ChainC, globalAllocations) }

C17_ChainEdgesAndTrigger ==
  (mod \in ChainModules /\ ~crashed) =>
    /\ pc \in {"header", "insert", "done"} =>
          /\ Len(ChainEdges) = 2
          /\ Cardinality(ChainEdgeIdx("SingleValued", ChainC, ChainB)) = 1
          /\ Cardinality(ChainEdgeIdx("SingleValued", ChainB, ChainA)) = 1
    /\ pc = "done" =>
          /\ ChainTriggers # {}
          /\ \A n \in ChainTriggers : emitted[n].b = StaticOffset_8

C17_ChainInSlotsCompiled ==
  /\ mod \in ChainModules /\ K(mod, 7) = "alloca" /\ pc = "done" /\ ~crashed
  /\ Len(ChainEdges) = 2 /\ ChainTriggers # {}

\* ------------------------------------------------------------------------
\* C18: an allocation call with fewer arguments than its kind requires is
\* skipped: the run does not fail, no record is created for the call and
\* it consumes no node id (the malloc(8) that follows it is node 0).
\* In the short-argument modules the first allocation call is the short one.
\* ------------------------------------------------------------------------
ShortCall == AllocCalls[1]

C18_ShortCallSkipped ==
  mod \in ShortArgsModules =>
    /\ ~crashed
    /\ \A k \in 1..Len(globalAllocations) :
          /\ globalAllocations[k].allocCall # ShortCall
          /\ globalAllocations[k].nodeId = 0
    /\ nextNodeId <= 1

\* ------------------------------------------------------------------------
\* C19: malloc of a constant number of bytes T that matches no literal
\* pattern; when the accesses use one type at least twice, it is the most
\* frequent and its size s divides T, the record gets element size s and
\* element count T / s.  In the usage modules instruction 1 is T,
\* the first call the allocation and instruction 5 a value of the accessed
\* type.
\* ------------------------------------------------------------------------
UsageCall == AllocCalls[1]
UsageBytes == ConstVal(mod, 1)
UsageTypeSize == mod.ins[5].ty

C19_UsageGivesSizeAndCount ==
  (mod \in UsageModules /\ pc # "collect" /\ ~crashed) =>
    \E k \in 1..Len(globalAllocations) :
      /\ globalAllocations[k].allocCall = UsageCall
      /\ globalAllocations[k].elementSize = VConst(UsageTypeSize, 32)
      /\ globalAllocations[k].numElements = VConst(UsageBytes \div UsageTypeSize, 64)

\* ------------------------------------------------------------------------
\* C20: when every inference strategy fails for a recognized allocation
\* call, of any kind, its record has element size 1 and, as element
\* count, the byte-size argument of the call (the second argument of
\* realloc, the first of malloc and operator new).
\* ------------------------------------------------------------------------
ByteSizeArg(name) == IF name = N_realloc THEN 2 ELSE 1

\* no strategy applies to the call: realloc has none; for malloc and
\* operator new the argument patterns and the usage analysis both fail
StrategiesFail(M, CI) ==
  With(CalleeName(M, CI), LAMBDA n :
  With([NewAllocInfo(CI) EXCEPT !.basePtr = CI], LAMBDA info :
    \/ n = N_realloc
    \/ /\ n \in {N_malloc, N_Znwm, N_Znam}
       /\ With(NewSizeArg(M, ArgOperand(M, CI, 1)), LAMBDA sizeArg :
            n = N_malloc \/ ~(IsConstInt(M, sizeArg) /\ ConstVal(M, sizeArg) % 8 = 0
                                                     /\ ConstVal(M, sizeArg) <= 256))
       /\ ~analyzeAllocationArgument(M, ArgOperand(M, CI, 1), info).ok
       /\ With(analyzeUsagePatterns(M,
                  [info EXCEPT !.numElements = IF n = N_malloc THEN VNull
                                               ELSE ArgValue(M, CI, 1)],
                  "value"), LAMBDA r : ~r.ok /\ ~r.crash)))

\* the calls that carry the arguments of their kind
FullCall(M, CI) ==
  Len(M.ins[CI].idx) >= (IF CalleeName(M, CI) \in {N_calloc, N_realloc} THEN 2 ELSE 1)

C20_FallbackSizeOneRawCount ==
  \A k \in 1..Len(globalAllocations) :
    With(globalAllocations[k], LAMBDA rec :
      (FullCall(mod, rec.allocCall) /\ StrategiesFail(mod, rec.allocCall)) =>
        /\ rec.elementSize = VConst(1, 32)
        /\ rec.numElements =
             ArgValue(mod, rec.allocCall, ByteSizeArg(CalleeName(mod, rec.allocCall))))

\* the same for malloc and operator new alone
C20_FallbackMallocNew ==
  \A k \in 1..Len(globalAllocations) :
    With(globalAllocations[k], LAMBDA rec :
      (/\ CalleeName(mod, rec.allocCall) # N_realloc
       /\ FullCall(mod, rec.allocCall)
       /\ StrategiesFail(mod, rec.allocCall)) =>
        /\ rec.elementSize = VConst(1, 32)
        /\ rec.numElements = ArgValue(mod, rec.allocCall, 1))

C20_MallocFellBack ==
  \E k \in 1..Len(globalAllocations) :
    /\ CalleeName(mod, globalAllocations[k].allocCall) \in {N_malloc, N_Znwm}
    /\ FullCall(mod, globalAllocations[k].allocCall)
    /\ StrategiesFail(mod, globalAllocations[k].allocCall)

\* ------------------------------------------------------------------------
\* C21: the literal-argument strategy reports a match for a size argument
\* count * c, c * count or count << k only when the per-element constant
\* (c, or 2^k) is one of 1, 2, 4, 8, 12, 16, 24, 32.  Checked on the
\* records of malloc calls: a record whose sizes are those the literal
\* strategy returns has a per-element constant of that set.
\* ------------------------------------------------------------------------
\* the per-element constant of a literal size argument (0: not a literal form)
LiteralConst(M, sizeArg) ==
  IF K(M, sizeArg) # "binop" THEN 0
  ELSE With(M.ins[sizeArg], LAMBDA i :
    IF i.op = "mul" /\ IsConstInt(M, i.b) THEN ConstVal(M, i.b)
    ELSE IF i.op = "mul" /\ IsConstInt(M, i.a) THEN ConstVal(M, i.a)
    ELSE IF i.op = "shl" /\ IsConstInt(M, i.b) THEN Shl64(ConstVal(M, i.b))
    ELSE 0)

\* the record carries the result of the literal strategy
LiteralMatched(M, rec) ==
  With(analyzeAllocationArgument(M, ArgOperand(M, rec.allocCall, 1),
                                 [NewAllocInfo(rec.allocCall) EXCEPT !.basePtr = rec.allocCall]),
       LAMBDA r : /\ r.ok
                  /\ rec.elementSize = r.info.elementSize
                  /\ rec.numElements = r.info.numElements
                  /\ rec.constantElementSize = r.info.constantElementSize)

C21_LiteralOnlyPlausible ==
  \A k \in 1..Len(globalAllocations) :
    With(globalAllocations[k], LAMBDA rec :
      (/\ CalleeName(mod, rec.allocCall) = N_malloc
       /\ FullCall(mod, rec.allocCall)
       /\ LiteralConst(mod, ArgOperand(mod, rec.allocCall, 1)) # 0
       /\ LiteralMatched(mod, rec))
        => LiteralConst(mod, ArgOperand(mod, rec.allocCall, 1)) \in PlausibleSizes)

\* the multiplication forms alone
C21_MulOnlyPlausible ==
  \A k \in 1..Len(globalAllocations) :
    With(globalAllocations[k], LAMBDA rec :
      (/\ CalleeName(mod, rec.allocCall) = N_malloc
       /\ FullCall(mod, rec.allocCall)
       /\ K(mod, ArgOperand(mod, rec.allocCall, 1)) = "binop"
       /\ mod.ins[ArgOperand(mod, rec.allocCall, 1)].op = "mul"
       /\ LiteralMatched(mod, rec))
        => LiteralConst(mod, ArgOperand(mod, rec.allocCall, 1)) \in PlausibleSizes)

\* ------------------------------------------------------------------------
\* C22: two runs of the collector on the same unit, with the same function
\* order, give every allocation site the same node id: the records of the
\* run in progress agree on the id of each site with those of a second
\* run of phase 1 (whatever the outcome of its out-of-range reads), and
\* the id of a record is the number of records created before it.
\* ------------------------------------------------------------------------
AgreeOnIds(allocs, again) ==
  \A k \in 1..Len(allocs) : \A j \in 1..Len(again) :
    allocs[k].allocCall = again[j].allocCall => allocs[k].nodeId = again[j].nodeId

C22_SameIdsInTwoRuns ==
  /\ \A ub \in {"crash", "value"} :
        AgreeOnIds(globalAllocations, CollectModule(mod, ub).allocs)
  /\ \A k \in 1..Len(globalAllocations) : globalAllocations[k].nodeId = k - 1

C22_SecondRunSameRecords ==
  /\ pc = "detect" /\ ~crashed
  /\ Len(globalAllocations) >= 2
  /\ Len(DefinedFuns(mod)) >= 2
  /\ [k \in 1..Len(globalAllocations) |-> globalAllocations[k].allocCall]
       = [k \in 1..Len(globalAllocations) |-> CollectModule(mod, "value").allocs[k].allocCall]

\* ------------------------------------------------------------------------
\* C23: the DIG depth computation terminates for every edge list and
\* start node, cycles and self-loops included, and assigns the depth of a
\* node a bounded number of times: the queue empties before the cut, no
\* node is assigned twice and the start node is never reassigned.
\* ------------------------------------------------------------------------
C23_DepthTerminates ==
  node # UINT32_MAX =>
    With(DepthRun(node, indirections), LAMBDA r :
      /\ r.q = <<>>
      /\ r.pops <= Len(indirections) + 1
      /\ \A x \in DOMAIN r.upd : r.upd[x] <= 1
      /\ node \notin DOMAIN r.upd
      /\ depth = r.max)

\* a cycle through the start node together with a self-loop on it
C23_CycleAndSelfLoop ==
  /\ node = 0
  /\ \E i \in 1..Len(indirections) :
        indirections[i].srcNodeId = 0 /\ indirections[i].destNodeId = 0
  /\ \E i \in 1..Len(indirections) :
        indirections[i].srcNodeId = MaxNode /\ indirections[i].destNodeId = 0
  /\ depth = MaxNode

\* ------------------------------------------------------------------------
\* C24: two address computations are similar exactly when they have the
\* same number of indices and every position where both indices are
\* constants holds equal constants; a position with a non-constant index
\* always matches, for index lists of any length.
\* ------------------------------------------------------------------------
ConstantsAgree(M, g1, g2) ==
  /\ NumIndices(M, g1) = NumIndices(M, g2)
  /\ \A j \in 1..NumIndices(M, g1) :
        (IsConstInt(M, M.ins[g1].idx[j]) /\ IsConstInt(M, M.ins[g2].idx[j]))
          => ConstVal(M, M.ins[g1].idx[j]) = ConstVal(M, M.ins[g2].idx[j])

C24_SimilarIffConstantsAgree ==
  (pc = "similar" /\ compared # <<>>) =>
    (similar <=> ConstantsAgree(mod, compared[1], compared[2]))

\* the part that holds: similar computations agree on their constants
C24_SimilarOnlyIfConstantsAgree ==
  (pc = "similar" /\ compared # <<>> /\ similar) => ConstantsAgree(mod, compared[1], compared[2])

\* C25: every traceToLoad call returns, having visited at most TraceLimit
\* distinct values, the traced value among them; its answer is either
\* 'not found' or a visited load whose pointer is not a stack slot
C25_TraceBounded ==
  traced # {} =>
    /\ Cardinality(traced) <= TraceLimit
    /\ query \in traced
    /\ \/ result = 0
       \/ /\ result \in traced
          /\ K(mod, result) = "load"
          /\ K(mod, mod.ins[result].a) # "alloca"

\* a trace that went round a slot whose stored value is computed from a load
\* of the same slot, and gave up at the limit
C25_CyclicSlotNotFound ==
  /\ result = 0
  /\ Cardinality(traced) = TraceLimit
  /\ \E l \in traced, s \in Vals(mod) :
       /\ K(mod, l) = "load"
       /\ K(mod, mod.ins[l].a) = "alloca"
       /\ K(mod, s) = "store"
       /\ mod.ins[s].b = mod.ins[l].a
       /\ mod.ins[s].a \in traced
       /\ K(mod, mod.ins[s].a) \in {"binop", "sext"}

\* ------------------------------------------------------------------------
\* The function-name filter of the collector
\* ------------------------------------------------------------------------
\* the prefixes tested by shouldTrackAllocation
BeginsDenylisted(name) ==
  \/ StartsWith(name, <<"_","_","k","m","p","c","_">>)
  \/ StartsWith(name, <<".","o","m","p","_">>)
  \/ StartsWith(name, <<"_","_","k","m","p","_">>)
  \/ StartsWith(name, <<"G","O","M","P","_">>)
  \/ StartsWith(name, <<"_","_">>) /\ ~StartsWith(name, <<"_","_","m","a","i","n">>)

\* a call with all its arguments, none of them the sentinel constant
PlainCall(M, CI) ==
  /\ FullCall(M, CI)
  /\ \A a \in 1..Len(M.ins[CI].idx) :
       ~(IsConstInt(M, M.ins[CI].idx[a]) /\ ConstVal(M, M.ins[CI].idx[a]) = SuspiciousSize)

Recorded(CI) == \E k \in 1..Len(globalAllocations) : globalAllocations[k].allocCall = CI

\* C26: once the collector has processed the unit, every allocation call
\* whose enclosing function's name does not begin with a denylisted prefix
\* (and whose arguments are not the sentinel) has a record.
C26_ExcludedOnlyByPrefix ==
  (pc = "detect" /\ ~crashed) =>
    \A j \in 1..Len(AllocCalls) :
      (/\ PlainCall(mod, AllocCalls[j])
       /\ ~BeginsDenylisted(FunName(mod, mod.ins[AllocCalls[j]].fn)))
        => Recorded(AllocCalls[j])

\* the same for functions whose name does not contain "omp" anywhere
C26_ExcludedOnlyByPrefixOrOmpText ==
  (pc = "detect" /\ ~crashed) =>
    \A j \in 1..Len(AllocCalls) :
      (/\ PlainCall(mod, AllocCalls[j])
       /\ ~BeginsDenylisted(FunName(mod, mod.ins[AllocCalls[j]].fn))
       /\ ~Contains(FunName(mod, mod.ins[AllocCalls[j]].fn), C_omp))
        => Recorded(AllocCalls[j])

\* ------------------------------------------------------------------------
\* Node registrations over the insertion steps of one run
\* ------------------------------------------------------------------------
\* the node registration calls inserted for node id
NodeCalls(out, id) == { k \in 1..Len(out) : out[k].kind = "NODE" /\ out[k].a = id }

\* C27: a record has no node registration call while its registered flag is
\* false and exactly one while it is true; a step from a state where the
\* flag is true leaves the flag true and inserts no further call for it.
C27_OneNodeCallPerRecord ==
  /\ [](\A i \in 1..Len(globalAllocations) :
         Cardinality(NodeCalls(emitted, globalAllocations[i].nodeId))
           = IF globalAllocations[i].registered THEN 1 ELSE 0)
  /\ [][\A i \in 1..Len(globalAllocations) :
          globalAllocations[i].registered =>
            /\ i <= Len(globalAllocations')
            /\ globalAllocations'[i].registered
            /\ NodeCalls(emitted', globalAllocations[i].nodeId)
                 = NodeCalls(emitted, globalAllocations[i].nodeId)]_vars

\* insertion has finished and instrumented records of two functions
C27_TwoFunctionsInstrumented ==
  /\ pc = "done"
  /\ \E i, j \in 1..Len(globalAllocations) :
       /\ mod.ins[globalAllocations[i].allocCall].fn # mod.ins[globalAllocations[j].allocCall].fn
       /\ globalAllocations[i].registered
       /\ globalAllocations[j].registered

\* ------------------------------------------------------------------------
\* Bytes described by a record
\* ------------------------------------------------------------------------
\* the number of bytes a call asks for when its arguments are constants
\* (calloc: count times size), -1 otherwise
RawBytes(M, CI) ==
  IF ~FullCall(M, CI) THEN -1
  ELSE IF CalleeName(M, CI) = N_calloc
  THEN IF IsConstInt(M, ArgOperand(M, CI, 1)) /\ IsConstInt(M, ArgOperand(M, CI, 2))
       THEN ConstVal(M, ArgOperand(M, CI, 1)) * ConstVal(M, ArgOperand(M, CI, 2)) ELSE -1
  ELSE With(ArgOperand(M, CI, ByteSizeArg(CalleeName(M, CI))), LAMBDA a :
         IF IsConstInt(M, a) THEN ConstVal(M, a) ELSE -1)

\* C28: a record of a call for a constant number of bytes T whose element
\* size s and element count c are both constants has c * s = T.
C28_CountTimesSizeIsBytes ==
  \A k \in 1..Len(globalAllocations) :
    With(globalAllocations[k], LAMBDA rec :
      (/\ RawBytes(mod, rec.allocCall) >= 0
       /\ rec.elementSize.kind = "const"
       /\ rec.numElements.kind = "const")
        => rec.numElements.c * rec.elementSize.c = RawBytes(mod, rec.allocCall))

\* ------------------------------------------------------------------------
\* Edge registrations of a unit that has a main function
\* ------------------------------------------------------------------------
\* the edge registration calls inserted for an edge
EdgeCalls(info) ==
  { k \in 1..Len(emitted) :
      /\ emitted[k].kind = "EDGE"
      /\ emitted[k].a = info.srcNodeId
      /\ emitted[k].b = info.destNodeId
      /\ emitted[k].c = getTraversalFunctionId(info.type) }

\* C29: when the unit has a main function and insertion has finished, every
\* edge recorded for a function has exactly one edge registration call.
C29_EveryEdgeRegisteredOnce ==
  (pc = "done" /\ ~crashed /\ MainFun(mod) # 0) =>
    \A F \in DOMAIN globalIndirections :
      \A j \in 1..Len(globalIndirections[F]) :
        Cardinality(EdgeCalls(globalIndirections[F][j])) = 1

\* ------------------------------------------------------------------------
\* The one-time guard under concurrency
\* ------------------------------------------------------------------------
\* C30: however the threads interleave, no NODE or TRIGGER registration is
\* printed more than once.
C30_PrintedAtMostOnce ==
  \A n \in 1..Len(emitted) :
    emitted[n].kind \in {"NODE", "TRIGGER"} => TimesPrinted(n) <= 1

\* the same while no second thread has started
C30_PrintedAtMostOnceAlone ==
  Cardinality({ t \in 1..MaxThreads : threads[t].at # 0 }) <= 1 =>
    \A n \in 1..Len(emitted) :
      emitted[n].kind \in {"NODE", "TRIGGER"} => TimesPrinted(n) <= 1

====
